---------------------------- MODULE Spec2Model ----------------------------
(***************************************************************************)
(* State-machine model of src/widgets/framelesswidgetshelper.cpp: the      *)
(* process-wide per-window table g_framelessWidgetsHelperData, the helper  *)
(* instances (FramelessWidgetsHelperPrivate) with their attach / detach    *)
(* lifecycle, the deferred one-shot "ready" callback, waitForReady and the *)
(* destructor.  Every action is one whole call of a member function; the   *)
(* variable fx holds, in order, what that call did (table writes, registry *)
(* calls, signal deliveries), op names the call.                           *)
(***************************************************************************)
EXTENDS Naturals, Integers, Sequences, FiniteSets, TLC

\* ------------------------------------------------------------------ bounds
\* Pending QTimer::singleShot callbacks one helper may have outstanding.
MaxTimers == 2
\* Entries one hit-test list of a record may hold.
MaxList == 1
\* Pending delayed repaints one helper may have outstanding.
MaxRepaints == 1

\* ------------------------------------------------------------- the universe
NoWindow == "nullwin"
Windows == {"w1", "w2"}
\* Helper instances in creation order (the order findChildren reports them).
HelperSeq == <<"a", "b", "c", "d">>
Helpers == {HelperSeq[i] : i \in 1..Len(HelperSeq)}
\* q->parent(): a and b live under the same top-level window, c under another,
\* d has a parent that is not a widget.
ParentWindow(h) ==
    CASE h = "a" -> "w1"
      [] h = "b" -> "w1"
      [] h = "c" -> "w2"
      [] OTHER   -> NoWindow

NullWidget == "nullptr"
ButtonSlots == {"windowIconButton", "contextHelpButton", "minimizeButton",
                "maximizeButton", "closeButton"}

\* struct FramelessWidgetsHelperData, default-constructed.  params is TRUE
\* once the SystemParameters callbacks have been stored, FALSE for {}.
FramelessWidgetsHelperData ==
    [ready |-> FALSE,
     params |-> FALSE,
     titleBarWidget |-> NullWidget,
     hitTestVisibleWidgets |-> <<>>,
     buttons |-> [s \in ButtonSlots |-> NullWidget],
     hitTestVisibleRects |-> <<>>]

VARIABLES
    alive,                      \* helper object exists (not yet destroyed)
    m_window,                   \* FramelessWidgetsHelperPrivate::m_window
    m_qpaReady,                 \* FramelessWidgetsHelperPrivate::m_qpaReady
    m_blurBehindWindowEnabled,  \* ...::m_blurBehindWindowEnabled
    timers,                     \* pending singleShot callbacks with context h
    waiting,                    \* h sits in waitForReady's QEventLoop
    g_data,                     \* g_framelessWidgetsHelperData: WId -> record
    registry,                   \* windows FramelessManager holds
    winAttrs,                   \* WA_DontCreateNativeAncestors/WA_NativeWindow
    op,                         \* the call the last step made
    fx,                         \* what that call did, in order
    qwidgets,                   \* the QWidget objects: windows and child widgets
    ret,                        \* arguments and return value of the last call
    repaints                    \* pending delayed repaints with context h

vars == <<alive, m_window, m_qpaReady, m_blurBehindWindowEnabled, timers,
          waiting, g_data, registry, winAttrs, op, fx, qwidgets, ret, repaints>>

\* ------------------------------------------------------------------ helpers
Range(s) == {s[i] : i \in 1..Len(s)}

Count(s, e) == Cardinality({i \in 1..Len(s) : s[i] = e})

\* m_window->findChildren<FramelessWidgetsHelper *>(): the live helper
\* objects below window w, in creation order.
InstancesOf(w, live) ==
    SelectSeq(HelperSeq, LAMBDA x : live[x] /\ ParentWindow(x) = w)

\* ret of a call that takes no traced argument and returns nothing.  fn is
\* the function called, pos / role / widget its arguments or out-values, val
\* its boolean result, touched the widgets whose members it called, flag
\* a boolean the platform answered during the call, rect / edges / signal
\* further arguments,
\* instance the helper object a call returned.
NoReturn ==
    [fn |-> "", pos |-> <<0, 0>>, val |-> FALSE, role |-> "Unknown",
     widget |-> NullWidget, touched |-> {}, flag |-> FALSE,
     rect |-> <<0, 0, 0, 0>>, edges |-> {}, signal |-> "", instance |-> ""]

\* The part of the program state one call works on.
State ==
    [mw |-> m_window, tbl |-> g_data, reg |-> registry, tm |-> timers,
     attrs |-> winAttrs, qpa |-> m_qpaReady, blur |-> m_blurBehindWindowEnabled,
     fx |-> <<>>, wid |-> qwidgets, ret |-> NoReturn, live |-> alive,
     rp |-> repaints]


\* ------------------------------------------------------- external registry
\* FramelessManager::instance()->addWindow(&params)
AddWindow(st, w) ==
    [st EXCEPT !.reg = @ \cup {w}, !.fx = Append(@, <<"addWindow", w, "">>)]

\* FramelessManager::instance()->removeWindow(windowId)
RemoveWindow(st, w) ==
    [st EXCEPT !.reg = @ \ {w}, !.fx = Append(@, <<"removeWindow", w, "">>)]

\* ------------------------------------------------------ per-window table
\* The table is a function whose domain is the set of keys it holds.
\* QHash::insert(windowId, value) and QHash::erase(it).
HashInsert(tbl, w, value) ==
    [x \in (DOMAIN tbl) \cup {w} |-> IF x = w THEN value ELSE tbl[x]]

HashErase(tbl, w) == [x \in (DOMAIN tbl) \ {w} |-> tbl[x]]

\* A lookup that inserts a default record without looking for an old one.
GetWindowData_AlwaysInsert(st, h) ==
    IF st.mw[h] = NoWindow THEN st
    ELSE [st EXCEPT !.tbl = HashInsert(@, st.mw[h], FramelessWidgetsHelperData)]

\* getWindowData / getWindowDataMutable: nullptr without a window, else the
\* record under the window's id, default-inserted when it is missing.  The
\* result is the state after the lookup; the record is .tbl[.mw[h]].
GetWindowData(st, h) ==
    IF st.mw[h] = NoWindow THEN st
    ELSE IF st.mw[h] \notin DOMAIN st.tbl
         THEN [st EXCEPT !.tbl = HashInsert(@, st.mw[h], FramelessWidgetsHelperData)]
         ELSE st

\* Whether the lookup returns a record at all (data != nullptr), and the
\* record it returns: the one found, else the default one just inserted.
HasData(st, h) == st.mw[h] /= NoWindow

DataOf(st, h) ==
    IF st.mw[h] \in DOMAIN st.tbl THEN st.tbl[st.mw[h]] ELSE FramelessWidgetsHelperData

\* A flag that reports the mere presence of a record, not its ready field.
IsContentExtendedIntoTitleBar_IgnoresReady(st, h) == HasData(st, h)

\* isContentExtendedIntoTitleBar(): (data ? data->ready : false)
IsContentExtendedIntoTitleBar(st, h) ==
    HasData(st, h) /\ DataOf(st, h).ready

\* What isContentExtendedIntoTitleBar() would report for h now.
ContentExtended(h) ==
    alive[h] /\ IsContentExtendedIntoTitleBar([mw |-> m_window, tbl |-> g_data], h)

\* A resolution that falls back to some top-level window.
FindTopLevelWindow_Fallback(h) ==
    IF ParentWindow(h) = NoWindow THEN "w1" ELSE ParentWindow(h)

\* findTopLevelWindow(): the parent widget's window(), nullptr when the
\* parent is absent or not a widget.
FindTopLevelWindow(h) ==
    ParentWindow(h)

\* A const char * that points nowhere.
NoSignal == "nullptr"

\* emitSignalForAllInstances(signal): nothing for a null or empty name and
\* nothing without m_window, else one delivery per helper instance found
\* below the window.
EmitSignalForAllInstances(st, h, signal) ==
    IF signal = NoSignal \/ signal = "" THEN st
    ELSE IF st.mw[h] = NoWindow THEN st
    ELSE LET inst == InstancesOf(st.mw[h], st.live)
         IN [st EXCEPT !.fx = @ \o [i \in 1..Len(inst) |-> <<"emit", signal, inst[i]>>]]

\* ------------------------------------------------------------ attach/detach
\* attach(): resolve the window, return when there is none or it is already
\* m_window; store it, set the two attributes, look the record up, return
\* when it is ready; else fill params, register, mark ready, start the timer.
Attach(st, h) ==
    LET window == FindTopLevelWindow(h) IN
    IF window = NoWindow THEN st
    ELSE IF st.mw[h] = window THEN st
    ELSE LET s1 == [st EXCEPT !.mw[h] = window,
                              !.attrs[window] = TRUE,
                              !.fx = Append(@, <<"setWindow", h, window>>)]
             s2 == GetWindowData(s1, h)
         IN IF s2.tbl[window].ready THEN s2
            ELSE LET s3 == AddWindow(s2, window)
                 IN [s3 EXCEPT !.tbl[window].params = TRUE,
                               !.tbl[window].ready = TRUE,
                               !.tm[h] = @ + 1,
                               !.fx = @ \o << <<"ready=true", window, "">>,
                                              <<"singleShot", h, "">> >>]

\* A detach that announces windowChanged while m_window is still set.
Detach_EmitBeforeClear(st, h) ==
    IF st.mw[h] = NoWindow THEN st
    ELSE LET windowId == st.mw[h] IN
         IF windowId \notin DOMAIN st.tbl THEN st
         ELSE LET s1 == [st EXCEPT !.tbl = HashErase(@, windowId),
                                   !.fx = Append(@, <<"erase", windowId, "">>)]
                  s2 == EmitSignalForAllInstances(RemoveWindow(s1, windowId),
                                                  h, "windowChanged")
              IN [s2 EXCEPT !.mw[h] = NoWindow,
                            !.fx = Append(@, <<"clearWindow", h, "">>)]

\* A detach that erases the record and leaves the window registered.
Detach_KeepRegistered(st, h) ==
    IF st.mw[h] = NoWindow THEN st
    ELSE LET windowId == st.mw[h] IN
         IF windowId \notin DOMAIN st.tbl THEN st
         ELSE LET s1 == [st EXCEPT !.tbl = HashErase(@, windowId),
                                   !.fx = Append(@, <<"erase", windowId, "">>)]
                  s3 == [s1 EXCEPT !.mw[h] = NoWindow,
                                   !.fx = Append(@, <<"clearWindow", h, "">>)]
              IN EmitSignalForAllInstances(s3, h, "windowChanged")

\* detach(): return without m_window or without a record; else erase the
\* record, unregister, clear m_window, emit windowChanged.
Detach(st, h) ==
    IF st.mw[h] = NoWindow THEN st
    ELSE LET windowId == st.mw[h] IN
         IF windowId \notin DOMAIN st.tbl THEN st
         ELSE LET s1 == [st EXCEPT !.tbl = HashErase(@, windowId),
                                   !.fx = Append(@, <<"erase", windowId, "">>)]
                  s2 == RemoveWindow(s1, windowId)
                  s3 == [s2 EXCEPT !.mw[h] = NoWindow,
                                   !.fx = Append(@, <<"clearWindow", h, "">>)]
              IN EmitSignalForAllInstances(s3, h, "windowChanged")

\* extendsContentIntoTitleBar(value), destroying = m_destroying.
ExtendsContentIntoTitleBar(st, h, value, destroying) ==
    LET s0 == GetWindowData(st, h) IN
    IF IsContentExtendedIntoTitleBar(st, h) = value THEN s0
    ELSE LET s1 == IF value THEN Attach(s0, h) ELSE Detach(s0, h)
         IN IF destroying THEN s1
            ELSE EmitSignalForAllInstances(s1, h, "extendsContentIntoTitleBarChanged")


\* ------------------------------------------------------------------- get
\* A QObject that is no QWidget; helper d is the one created below it.
PlainObject == "qobject"

\* q->parent() as findChild<FramelessWidgetsHelper *>() sees it from the
\* object that get() searches: the top-level window, or the plain object.
HelperParent(h) == IF ParentWindow(h) /= NoWindow THEN ParentWindow(h) ELSE PlainObject

\* QWidget::window() of the widgets of the model.
TopLevelOf(object) ==
    CASE object \in Windows -> object
      [] object \in {"wd1", "wd2"} -> "w1"
      [] OTHER -> object

\* The default argument of FramelessWidgetsHelper::extendsContentIntoTitleBar,
\* which the class declaration sets.
ExtendsContentDefault == TRUE

\* A lookup that never finds the instance that exists.
FindOrCreateFramelessHelper_AlwaysCreate(st, object) ==
    LET fresh == SelectSeq(HelperSeq,
                    LAMBDA x : ~st.live[x] /\ HelperParent(x) = TopLevelOf(object))
    IN IF fresh = << >> THEN st
       ELSE LET s1 == ExtendsContentIntoTitleBar(
                          [st EXCEPT !.live[Head(fresh)] = TRUE], Head(fresh),
                          ExtendsContentDefault, FALSE)
            IN [s1 EXCEPT !.ret = [NoReturn EXCEPT !.fn = "get", !.widget = object,
                                                   !.instance = Head(fresh)]]

\* findOrCreateFramelessHelper(object): the first helper found below the
\* object's window (or below the object when it is no widget); when there is
\* none, a new helper with that parent, on which extendsContentIntoTitleBar()
\* is called with its default argument true.  Null returns null.
FindOrCreateFramelessHelper(st, object) ==
    IF object = NullWidget
    THEN [st EXCEPT !.ret = [NoReturn EXCEPT !.fn = "get", !.widget = object]]
    ELSE LET parent == TopLevelOf(object)
             found == SelectSeq(HelperSeq, LAMBDA x : st.live[x] /\ HelperParent(x) = parent)
             fresh == SelectSeq(HelperSeq, LAMBDA x : ~st.live[x] /\ HelperParent(x) = parent)
         IN IF found /= << >>
            THEN [st EXCEPT !.ret = [NoReturn EXCEPT !.fn = "get", !.widget = object,
                                                     !.instance = Head(found)]]
            ELSE LET s1 == ExtendsContentIntoTitleBar(
                               [st EXCEPT !.live[Head(fresh)] = TRUE], Head(fresh),
                               ExtendsContentDefault, FALSE)
                 IN [s1 EXCEPT !.ret = [NoReturn EXCEPT !.fn = "get", !.widget = object,
                                                        !.instance = Head(fresh)]]

\* ------------------------------------------------------ deferred callback
\* A centering that does not look at m_window first.
MoveWindowToDesktopCenter_NoWindowCheck(st, h) ==
    [st EXCEPT !.fx = Append(@, <<"center", st.mw[h], "noparams">>)]

\* moveWindowToDesktopCenter(): nothing without m_window, else
\* Utils::moveWindowToDesktopCenter(&getWindowData()->params, true); the
\* event tells whether the params handed over were ever filled.
MoveWindowToDesktopCenter(st, h) ==
    IF st.mw[h] = NoWindow THEN st
    ELSE LET s1 == GetWindowData(st, h)
         IN [s1 EXCEPT !.fx = Append(@, <<"center", st.mw[h],
                 IF s1.tbl[st.mw[h]].params THEN "params" ELSE "noparams">>)]

\* setBlurBehindWindowEnabled(enable, color): nothing without m_window or
\* when the flag already has the value; else the platform call, which either
\* takes effect (flag stored, blurBehindWindowEnabledChanged emitted) or
\* fails with a warning.  platformOk is the platform's answer.
SetBlurBehindWindowEnabled(st, h, enable, platformOk) ==
    IF st.mw[h] = NoWindow THEN st
    ELSE IF st.blur[h] = enable THEN st
    ELSE IF platformOk
         THEN EmitSignalForAllInstances(
                  [st EXCEPT !.blur[h] = enable,
                             !.fx = Append(@, <<"blur", st.mw[h], "ok">>)],
                  h, "blurBehindWindowEnabledChanged")
         ELSE [st EXCEPT !.fx = Append(@, <<"blur", st.mw[h], "failed">>)]

\* A callback that announces ready before windowChanged.
ReadyCallback_ReadyFirst(st, h, center, blurOpt, platformOk) ==
    LET s1 == [st EXCEPT !.qpa[h] = TRUE, !.fx = Append(@, <<"m_qpaReady", h, "">>)]
        s2 == IF center THEN MoveWindowToDesktopCenter(s1, h) ELSE s1
        s3 == IF blurOpt THEN SetBlurBehindWindowEnabled(s2, h, TRUE, platformOk) ELSE s2
        s4 == EmitSignalForAllInstances(s3, h, "ready")
    IN EmitSignalForAllInstances(s4, h, "windowChanged")

\* The lambda attach() hands to QTimer::singleShot; center and blurOpt are
\* FramelessConfig's CenterWindowBeforeShow and EnableBlurBehindWindow.
ReadyCallback(st, h, center, blurOpt, platformOk) ==
    LET s1 == [st EXCEPT !.qpa[h] = TRUE, !.fx = Append(@, <<"m_qpaReady", h, "">>)]
        s2 == IF center THEN MoveWindowToDesktopCenter(s1, h) ELSE s1
        s3 == IF blurOpt THEN SetBlurBehindWindowEnabled(s2, h, TRUE, platformOk) ELSE s2
        s4 == EmitSignalForAllInstances(s3, h, "windowChanged")
    IN EmitSignalForAllInstances(s4, h, "ready")

\* ------------------------------------------------- per-window configuration
Widgets == {"wd1", "wd2"}

SystemButtonTypes ==
    {"Unknown", "WindowIcon", "Help", "Minimize", "Maximize", "Restore", "Close"}

\* A switch in which Restore falls through to the close button's case.
SlotOf_RestoreIsClose(role) ==
    CASE role = "WindowIcon" -> "windowIconButton"
      [] role = "Help"       -> "contextHelpButton"
      [] role = "Minimize"   -> "minimizeButton"
      [] role = "Maximize"   -> "maximizeButton"
      [] role = "Restore"    -> "closeButton"
      [] role = "Close"      -> "closeButton"

\* The slot a role addresses (the switch in setSystemButton and
\* setSystemButtonState); Maximize and Restore share one.
SlotOf(role) ==
    CASE role = "WindowIcon" -> "windowIconButton"
      [] role = "Help"       -> "contextHelpButton"
      [] role = "Minimize"   -> "minimizeButton"
      [] role = "Maximize"   -> "maximizeButton"
      [] role = "Restore"    -> "maximizeButton"
      [] role = "Close"      -> "closeButton"

\* QRect as <<x, y, width, height>>; QRect::isValid().
RectIsValid(r) == r[3] >= 1 /\ r[4] >= 1

\* QList::removeAll(value)
RemoveAll(list, value) == SelectSeq(list, LAMBDA e : e /= value)

\* ------------------------------------------------------ the QWidget objects
\* Windows are top-level QWidgets; wd1 is a child of window w1 and wd2 a child
\* of wd1 (a button sitting in a title bar).
QWidgets == Windows \cup Widgets

ParentWidget(x) ==
    CASE x = "wd1" -> "w1"
      [] x = "wd2" -> "wd1"
      [] OTHER     -> NullWidget

IsWindow(x) == x \in Windows

\* x is y or an ancestor of y in the widget tree.
RECURSIVE IsAncestorOrSelf(_, _)
IsAncestorOrSelf(x, y) ==
    IF y = NullWidget THEN FALSE
    ELSE IF x = y THEN TRUE
    ELSE IsAncestorOrSelf(x, ParentWidget(y))

\* Qt::WindowStates flags a window may carry.
WindowStateFlags == {"WindowMinimized", "WindowMaximized", "WindowFullScreen",
                     "WindowActive"}

\* One QWidget: pos() is relative to the parent, size() is <<width, height>>.
QWidget(pos, size) ==
    [live |-> TRUE, visible |-> TRUE, enabled |-> TRUE,
     pos |-> pos, size |-> size, windowState |-> {},
     minimumSize |-> <<0, 0>>, maximumSize |-> <<1000, 1000>>,
     sizePolicy |-> <<"Preferred", "Preferred">>, fixedSizeHint |-> FALSE]

\* A 400x300 window with a title bar across its top and a button at the
\* right end of the title bar.
DefaultWidgets ==
    [x \in QWidgets |->
        CASE x = "wd1" -> QWidget(<<0, 0>>, <<400, 30>>)
          [] x = "wd2" -> QWidget(<<370, 0>>, <<30, 30>>)
          [] OTHER     -> QWidget(<<100, 100>>, <<400, 300>>)]

\* A raw pointer: it keeps its value when the object is gone.
QPointerData_Raw(wid, ptr) == ptr

\* QPointer<QWidget>::data(): the widget, nullptr once it was destroyed.
QPointerData(wid, ptr) ==
    IF ptr /= NullWidget /\ wid[ptr].live THEN ptr ELSE NullWidget

\* QWidget::geometry(): the rectangle <<x, y, width, height>> relative to the
\* parent widget.
Geometry(wid, x) == <<wid[x].pos[1], wid[x].pos[2], wid[x].size[1], wid[x].size[2]>>

\* QRect::contains(QPoint) and QRect::intersects(QRect) for rectangles of
\* non-negative width and height.
RectContains(r, p) ==
    /\ r[1] <= p[1] /\ p[1] < r[1] + r[3]
    /\ r[2] <= p[2] /\ p[2] < r[2] + r[4]

RectIntersects(a, b) ==
    /\ RectIsValid(a) /\ RectIsValid(b)
    /\ a[1] < b[1] + b[3] /\ b[1] < a[1] + a[3]
    /\ a[2] < b[2] + b[4] /\ b[2] < a[2] + a[4]

\* QWidget::mapTo(window, QPoint(0, 0)): the widget's origin in the
\* coordinates of its ancestor window.
RECURSIVE MapTo(_, _, _)
MapTo(wid, x, window) ==
    IF x = window \/ x = NullWidget THEN <<0, 0>>
    ELSE LET o == MapTo(wid, ParentWidget(x), window)
         IN <<wid[x].pos[1] + o[1], wid[x].pos[2] + o[2]>>

\* mapWidgetGeometryToScene(widget): the null rectangle without a widget or
\* without m_window, else QRect(mapTo(m_window, (0,0)), size()).
MapWidgetGeometryToScene(st, h, widget) ==
    IF widget = NullWidget \/ st.mw[h] = NoWindow THEN <<0, 0, 0, 0>>
    ELSE LET o == MapTo(st.wid, widget, st.mw[h])
         IN <<o[1], o[2], st.wid[widget].size[1], st.wid[widget].size[2]>>

\* A setter that stores the widget in a fresh record, dropping the old one.
SetTitleBarWidget_FreshRecord(st, h, widget) ==
    IF widget = NullWidget \/ ~HasData(st, h) THEN st
    ELSE EmitSignalForAllInstances(
             [st EXCEPT !.tbl = HashInsert(@, st.mw[h],
                  [FramelessWidgetsHelperData EXCEPT !.titleBarWidget = widget])],
             h, "titleBarWidgetChanged")

\* setTitleBarWidget(widget)
SetTitleBarWidget(st, h, widget) ==
    IF widget = NullWidget THEN st
    ELSE LET s1 == GetWindowData(st, h) IN
         IF ~HasData(st, h) THEN s1
         ELSE IF s1.tbl[st.mw[h]].titleBarWidget = widget THEN s1
         ELSE EmitSignalForAllInstances(
                  [s1 EXCEPT !.tbl[st.mw[h]].titleBarWidget = widget],
                  h, "titleBarWidgetChanged")

\* setHitTestVisible(QWidget *widget, bool visible)
SetHitTestVisibleWidget(st, h, widget, visible) ==
    IF widget = NullWidget THEN st
    ELSE LET s1 == GetWindowData(st, h) IN
         IF ~HasData(st, h) THEN s1
         ELSE IF visible
              THEN [s1 EXCEPT !.tbl[st.mw[h]].hitTestVisibleWidgets = Append(@, widget)]
              ELSE [s1 EXCEPT !.tbl[st.mw[h]].hitTestVisibleWidgets = RemoveAll(@, widget)]

\* A setter that takes any rectangle.
SetHitTestVisibleRect_AnyRect(st, h, rect, visible) ==
    LET s1 == GetWindowData(st, h) IN
    IF ~HasData(st, h) THEN s1
    ELSE IF visible
         THEN [s1 EXCEPT !.tbl[st.mw[h]].hitTestVisibleRects = Append(@, rect)]
         ELSE [s1 EXCEPT !.tbl[st.mw[h]].hitTestVisibleRects = RemoveAll(@, rect)]

\* setHitTestVisible(const QRect &rect, bool visible)
SetHitTestVisibleRect(st, h, rect, visible) ==
    IF ~RectIsValid(rect) THEN st
    ELSE LET s1 == GetWindowData(st, h) IN
         IF ~HasData(st, h) THEN s1
         ELSE IF visible
              THEN [s1 EXCEPT !.tbl[st.mw[h]].hitTestVisibleRects = Append(@, rect)]
              ELSE [s1 EXCEPT !.tbl[st.mw[h]].hitTestVisibleRects = RemoveAll(@, rect)]

\* qobject_cast<QWidget *>(object)
QObjectCast(object) == IF object \in QWidgets THEN object ELSE NullWidget

\* setHitTestVisible(QObject *object, bool visible)
SetHitTestVisibleObject(st, h, object, visible) ==
    IF object = NullWidget THEN st
    ELSE LET widget == QObjectCast(object) IN
         IF widget = NullWidget THEN st
         ELSE SetHitTestVisibleWidget(st, h, widget, visible)

\* windowStartSystemResize2(edges, pos): nothing without m_window or with
\* no edge, else the platform starts the resize.
WindowStartSystemResize2(st, h, edges, pos) ==
    IF st.mw[h] = NoWindow THEN st
    ELSE IF edges = {} THEN st
    ELSE [st EXCEPT !.fx = Append(@, <<"startSystemResize", st.mw[h], "">>)]

\* setSystemButton(widget, buttonType)
SetSystemButton(st, h, widget, buttonType) ==
    IF widget = NullWidget \/ buttonType = "Unknown" THEN st
    ELSE LET s1 == GetWindowData(st, h) IN
         IF ~HasData(st, h) THEN s1
         ELSE [s1 EXCEPT !.tbl[st.mw[h]].buttons[SlotOf(buttonType)] = widget]

\* A version that keeps the slots as plain pointers.
SetSystemButtonState_RawPointer(st, h, button, state) ==
    IF button = "Unknown" \/ ~HasData(st, h) THEN GetWindowData(st, h)
    ELSE LET s1 == GetWindowData(st, h)
             widgetButton == s1.tbl[st.mw[h]].buttons[SlotOf(button)]
         IN IF widgetButton = NullWidget THEN s1
            ELSE [s1 EXCEPT !.fx = Append(@, <<"emulateQtMouseEvent", widgetButton, state>>)]

\* setSystemButtonState(button, state): the widget in the role's slot, if
\* any, is sent the emulated mouse event.
SetSystemButtonState(st, h, button, state) ==
    IF button = "Unknown" THEN st
    ELSE LET s1 == GetWindowData(st, h) IN
         IF ~HasData(st, h) THEN s1
         ELSE LET widgetButton ==
                      QPointerData(s1.wid, s1.tbl[st.mw[h]].buttons[SlotOf(button)]) IN
              IF widgetButton = NullWidget THEN s1
              ELSE [s1 EXCEPT !.fx = Append(@, <<"emulateQtMouseEvent", widgetButton, state>>)]

\* ------------------------------------------------------------- hit testing
\* The order in which the button slots are tested, and the role reported
\* for each.
ButtonOrder ==
    <<"windowIconButton", "contextHelpButton", "minimizeButton", "maximizeButton",
      "closeButton">>

RoleOf(slot) ==
    CASE slot = "windowIconButton"  -> "WindowIcon"
      [] slot = "contextHelpButton" -> "Help"
      [] slot = "minimizeButton"    -> "Minimize"
      [] slot = "maximizeButton"    -> "Maximize"
      [] slot = "closeButton"       -> "Close"

\* ptr && ptr->isVisible() && ptr->isEnabled()
IsUsable(wid, ptr) ==
    LET x == QPointerData(wid, ptr)
    IN x /= NullWidget /\ wid[x].visible /\ wid[x].enabled

\* The widgets a sequence of QPointers lets the code call members on.
Pointees(wid, ptrs) ==
    {QPointerData(wid, ptrs[i]) : i \in 1..Len(ptrs)} \ {NullWidget}

\* isInSystemButtons(pos, button): button is what the caller's variable held
\* before the call.  Without a record the call returns false and leaves the
\* variable alone; else the variable is set to Unknown and the slots are
\* tested in order against geometry().contains(pos).
IsInSystemButtons(st, h, pos, button) ==
    LET s1 == GetWindowData(st, h)
        call == [NoReturn EXCEPT !.fn = "isInSystemButtons", !.pos = pos]
    IN IF ~HasData(st, h) THEN [s1 EXCEPT !.ret = [call EXCEPT !.role = button]]
       ELSE LET data == DataOf(st, h)
                ptr(i) == data.buttons[ButtonOrder[i]]
                I == {i \in 1..Len(ButtonOrder) :
                        /\ IsUsable(st.wid, ptr(i))
                        /\ RectContains(Geometry(st.wid, QPointerData(st.wid, ptr(i))), pos)}
                first == IF I = {} THEN 0 ELSE CHOOSE i \in I : \A j \in I : i <= j
                tested == IF first = 0 THEN Len(ButtonOrder) ELSE first
            IN [s1 EXCEPT !.ret =
                   [call EXCEPT !.val = (first /= 0),
                                !.role = IF first = 0 THEN "Unknown"
                                         ELSE RoleOf(ButtonOrder[first]),
                                !.touched = Pointees(st.wid, [i \in 1..tested |-> ptr(i)])]]

\* QRegion built from a rectangle by subtracting rectangles, and
\* QRegion::contains(QPoint).
Region(base, minus) == [base |-> base, minus |-> minus]

RegionContains(region, p) ==
    /\ RectContains(region.base, p)
    /\ \A i \in 1..Len(region.minus) : ~RectContains(region.minus[i], p)

\* A test that cuts the excluded widgets out whether shown or not.
IsInTitleBarDraggableArea_AllExclusions(st, h, pos) ==
    LET s1 == GetWindowData(st, h)
        call == [NoReturn EXCEPT !.fn = "isInTitleBarDraggableArea", !.pos = pos]
        data == DataOf(st, h)
        titleBar == QPointerData(st.wid, data.titleBarWidget)
    IN IF ~HasData(st, h) \/ ~IsUsable(st.wid, data.titleBarWidget)
       THEN [s1 EXCEPT !.ret = call]
       ELSE LET titleBarRect == MapWidgetGeometryToScene(st, h, titleBar)
                buttons == SelectSeq([i \in 1..Len(ButtonOrder) |->
                                         data.buttons[ButtonOrder[i]]],
                                     LAMBDA q : IsUsable(st.wid, q))
                widgets == SelectSeq(data.hitTestVisibleWidgets,
                                     LAMBDA q : QPointerData(st.wid, q) /= NullWidget)
                pointers == buttons \o widgets
                mapped == [i \in 1..Len(pointers) |->
                             MapWidgetGeometryToScene(st, h, pointers[i])]
                region == Region(titleBarRect, mapped \o data.hitTestVisibleRects)
            IN [s1 EXCEPT !.ret = [call EXCEPT !.val =
                   /\ RectIntersects(titleBarRect,
                                     <<0, 0, st.wid[st.mw[h]].size[1],
                                       st.wid[st.mw[h]].size[2]>>)
                   /\ RegionContains(region, pos)]]

\* isInTitleBarDraggableArea(pos)
IsInTitleBarDraggableArea(st, h, pos) ==
    LET s1 == GetWindowData(st, h)
        call == [NoReturn EXCEPT !.fn = "isInTitleBarDraggableArea", !.pos = pos]
    IN IF ~HasData(st, h) THEN [s1 EXCEPT !.ret = call]
       ELSE LET data == DataOf(st, h)
                titleBar == QPointerData(st.wid, data.titleBarWidget)
            IN IF titleBar = NullWidget THEN [s1 EXCEPT !.ret = call]
               ELSE IF ~st.wid[titleBar].visible \/ ~st.wid[titleBar].enabled
                    THEN [s1 EXCEPT !.ret = [call EXCEPT !.touched = {titleBar}]]
               ELSE LET windowRect == <<0, 0, st.wid[st.mw[h]].size[1],
                                        st.wid[st.mw[h]].size[2]>>
                        titleBarRect == MapWidgetGeometryToScene(st, h, titleBar)
                        systemButtons == [i \in 1..Len(ButtonOrder) |->
                                             data.buttons[ButtonOrder[i]]]
                        pointers == systemButtons \o data.hitTestVisibleWidgets
                        usable == SelectSeq(pointers, LAMBDA q : IsUsable(st.wid, q))
                        mapped == [i \in 1..Len(usable) |->
                                     MapWidgetGeometryToScene(st, h,
                                         QPointerData(st.wid, usable[i]))]
                        rects == SelectSeq(data.hitTestVisibleRects, RectIsValid)
                        region == Region(titleBarRect, mapped \o rects)
                    IN IF ~RectIntersects(titleBarRect, windowRect)
                       THEN [s1 EXCEPT !.ret = [call EXCEPT !.touched = {titleBar}]]
                       ELSE [s1 EXCEPT !.ret =
                               [call EXCEPT !.val = RegionContains(region, pos),
                                            !.touched = {titleBar}
                                                \cup Pointees(st.wid, pointers)]]

\* kDefaultResizeBorderThickness
kDefaultResizeBorderThickness == 8

\* Utils::windowStatesToWindowState(states): the one state a set of window
\* state flags stands for.
WindowStatesToWindowState(states) ==
    IF "WindowFullScreen" \in states THEN "WindowFullScreen"
    ELSE IF "WindowMaximized" \in states THEN "WindowMaximized"
    ELSE IF "WindowMinimized" \in states THEN "WindowMinimized"
    ELSE "WindowNoState"

\* A test that looks at the left and right edges on every platform.
ShouldIgnoreMouseEvents_AllEdges(st, h, pos, frameBorderVisible) ==
    LET call == [NoReturn EXCEPT !.fn = "shouldIgnoreMouseEvents", !.pos = pos,
                                 !.flag = frameBorderVisible]
    IN IF st.mw[h] = NoWindow THEN [st EXCEPT !.ret = call]
       ELSE LET window == st.wid[st.mw[h]]
            IN [st EXCEPT !.ret = [call EXCEPT !.val =
                   /\ WindowStatesToWindowState(window.windowState) = "WindowNoState"
                   /\ \/ pos[2] < kDefaultResizeBorderThickness
                      \/ pos[1] < kDefaultResizeBorderThickness
                      \/ pos[1] >= window.size[1] - kDefaultResizeBorderThickness]]

\* shouldIgnoreMouseEvents(pos); frameBorderVisible is the answer of
\* Utils::isWindowFrameBorderVisible() on Windows, FALSE on other platforms.
ShouldIgnoreMouseEvents(st, h, pos, frameBorderVisible) ==
    LET call == [NoReturn EXCEPT !.fn = "shouldIgnoreMouseEvents", !.pos = pos,
                                 !.flag = frameBorderVisible]
    IN IF st.mw[h] = NoWindow THEN [st EXCEPT !.ret = call]
       ELSE LET window == st.wid[st.mw[h]]
                withinFrameBorder ==
                    IF pos[2] < kDefaultResizeBorderThickness THEN TRUE
                    ELSE IF frameBorderVisible THEN FALSE
                    ELSE \/ pos[1] < kDefaultResizeBorderThickness
                         \/ pos[1] >= window.size[1] - kDefaultResizeBorderThickness
            IN [st EXCEPT !.ret = [call EXCEPT !.val =
                   /\ WindowStatesToWindowState(window.windowState) = "WindowNoState"
                   /\ withinFrameBorder]]

\* getTitleBarWidget(): (data ? data->titleBarWidget : nullptr)
GetTitleBarWidget(st, h) ==
    LET s1 == GetWindowData(st, h)
    IN [s1 EXCEPT !.ret = [NoReturn EXCEPT
            !.fn = "getTitleBarWidget",
            !.widget = IF HasData(st, h)
                       THEN QPointerData(st.wid, DataOf(st, h).titleBarWidget)
                       ELSE NullWidget]]

\* ------------------------------------------------------------ repaint forcer
\* QSize::isEmpty()
SizeIsEmpty(size) == size[1] < 1 \/ size[2] < 1

\* A test that knows the window hint only.
IsWidgetFixedSize_HintOnly(wid, x) == wid[x].fixedSizeHint

\* isWidgetFixedSize(widget)
IsWidgetFixedSize(wid, x) ==
    IF wid[x].fixedSizeHint THEN TRUE
    ELSE IF /\ ~SizeIsEmpty(wid[x].minimumSize) /\ ~SizeIsEmpty(wid[x].maximumSize)
            /\ wid[x].minimumSize = wid[x].maximumSize
         THEN TRUE
    ELSE wid[x].sizePolicy = <<"Fixed", "Fixed">>

Clamp(v, lo, hi) == IF v > hi THEN (IF hi < lo THEN lo ELSE hi) ELSE IF v < lo THEN lo ELSE v

\* QWidget::resize(size): the size is bounded by maximumSize and expanded to
\* minimumSize.  QWidget::move(pos).
Resize(st, x, size, which) ==
    [st EXCEPT
        !.wid[x].size = <<Clamp(size[1], st.wid[x].minimumSize[1], st.wid[x].maximumSize[1]),
                          Clamp(size[2], st.wid[x].minimumSize[2], st.wid[x].maximumSize[2])>>,
        !.fx = Append(@, <<"resize", x, which>>)]

Move(st, x, pos, which) ==
    [st EXCEPT !.wid[x].pos = pos, !.fx = Append(@, <<"move", x, which>>)]

Update(st, x) == [st EXCEPT !.fx = Append(@, <<"update", x, "">>)]

\* forceWidgetRepaint(widget): update(); unless the widget is a window that
\* is minimized, maximized or fullscreen, resize by margins of 10 and back
\* (skipped for a fixed-size widget) and move by (10,10) and back; update().
ForceWidgetRepaint(st, x) ==
    IF x = NullWidget THEN st
    ELSE LET s0 == Update([st EXCEPT !.fx = Append(@, <<"forceWidgetRepaint", x, "">>)], x)
             originalSize == st.wid[x].size
             originalPosition == st.wid[x].pos
             s1 == IF IsWidgetFixedSize(st.wid, x) THEN s0
                   ELSE Resize(
                          Resize(
                            Resize(s0, x, <<originalSize[1] - 20, originalSize[2] - 20>>,
                                   "shrunk"),
                            x, <<originalSize[1] + 20, originalSize[2] + 20>>, "grown"),
                          x, originalSize, "original")
             s2 == Move(
                     Move(
                       Move(s1, x, <<originalPosition[1] - 10, originalPosition[2] - 10>>,
                            "minus"),
                       x, <<originalPosition[1] + 10, originalPosition[2] + 10>>, "plus"),
                     x, originalPosition, "original")
         IN IF ~IsWindow(x)
               \/ st.wid[x].windowState
                     \cap {"WindowMinimized", "WindowMaximized", "WindowFullScreen"} = {}
            THEN Update(s2, x)
            ELSE Update(s0, x)

\* m_window->findChildren<QWidget *>(): the live widgets below the window.
WidgetSeq == <<"wd1", "wd2">>

FindChildren(wid, window) ==
    SelectSeq(WidgetSeq, LAMBDA x : wid[x].live /\ IsAncestorOrSelf(window, x))

RECURSIVE RepaintEach(_, _)
RepaintEach(st, widgets) ==
    IF widgets = << >> THEN st
    ELSE RepaintEach(ForceWidgetRepaint(st, Head(widgets)), Tail(widgets))

\* The lambda of repaintAllChildren, run by the single-shot timer:
\* forceWidgetRepaint(m_window), which returns on null, then
\* m_window->findChildren<QWidget *>() and forceWidgetRepaint on each.  With
\* m_window cleared the second statement calls a member through a null
\* pointer, whose behaviour is undefined: the process crashes there or runs
\* on with whatever the call produced; outcome is which.
RepaintUpdate(st, h, outcome) ==
    IF st.mw[h] = NoWindow
    THEN [st EXCEPT !.fx = Append(@, <<"nullDereference", h, outcome>>)]
    ELSE RepaintEach(ForceWidgetRepaint(st, st.mw[h]), FindChildren(st.wid, st.mw[h]))

\* repaintAllChildren(delay) with delay > 0: nothing without m_window, else
\* the lambda is handed to QTimer::singleShot with the helper as context.
RepaintAllChildrenLater(st, h) ==
    IF st.mw[h] = NoWindow THEN st
    ELSE [st EXCEPT !.rp[h] = @ + 1, !.fx = Append(@, <<"singleShotRepaint", h, "">>)]

\* repaintAllChildren(0): nothing without m_window, else forceWidgetRepaint
\* on the window and on each of its children.
RepaintAllChildren(st, h) ==
    IF st.mw[h] = NoWindow THEN st
    ELSE RepaintEach(ForceWidgetRepaint(st, st.mw[h]), FindChildren(st.wid, st.mw[h]))

\* --------------------------------------------------------------- the calls
TypeOK ==
    /\ alive \in [Helpers -> BOOLEAN]
    /\ m_window \in [Helpers -> Windows \cup {NoWindow}]
    /\ m_qpaReady \in [Helpers -> BOOLEAN]
    /\ m_blurBehindWindowEnabled \in [Helpers -> BOOLEAN]
    /\ timers \in [Helpers -> 0..MaxTimers]
    /\ waiting \in [Helpers -> BOOLEAN]
    /\ DOMAIN g_data \subseteq Windows
    /\ registry \subseteq Windows
    /\ winAttrs \in [Windows -> BOOLEAN]
    /\ DOMAIN qwidgets = QWidgets
    /\ repaints \in [Helpers -> 0..MaxRepaints]
    /\ ret.role \in SystemButtonTypes

\* After construction: no helper has a window, the table and the registry
\* are empty, nothing is scheduled.
Init ==
    /\ alive = [h \in Helpers |-> TRUE]
    /\ m_window = [h \in Helpers |-> NoWindow]
    /\ m_qpaReady = [h \in Helpers |-> FALSE]
    /\ m_blurBehindWindowEnabled = [h \in Helpers |-> FALSE]
    /\ timers = [h \in Helpers |-> 0]
    /\ waiting = [h \in Helpers |-> FALSE]
    /\ g_data = << >>
    /\ registry = {}
    /\ winAttrs = [w \in Windows |-> FALSE]
    /\ op = <<"init", "", "">>
    /\ fx = << >>
    /\ qwidgets = DefaultWidgets
    /\ ret = NoReturn
    /\ repaints = [h \in Helpers |-> 0]

\* op tells the lifecycle calls apart (extendsContentIntoTitleBar, destroy,
\* readyCallback, waitForReady); every other call of helper h is recorded as
\* this.
OtherCall(h) == <<"call", h, "">>

\* Store what a call left behind.
Commit(st) ==
    /\ m_window' = st.mw
    /\ g_data' = st.tbl
    /\ registry' = st.reg
    /\ timers' = st.tm
    /\ winAttrs' = st.attrs
    /\ m_qpaReady' = st.qpa
    /\ m_blurBehindWindowEnabled' = st.blur
    /\ fx' = st.fx
    /\ qwidgets' = st.wid
    /\ ret' = st.ret
    /\ repaints' = st.rp

\* FramelessWidgetsHelper::extendsContentIntoTitleBar(value)
ExtendsContent(h, value) ==
    /\ alive[h]
    /\ value => timers[h] < MaxTimers
    /\ Commit(ExtendsContentIntoTitleBar(State, h, value, FALSE))
    /\ op' = <<"extendsContentIntoTitleBar", h, IF value THEN "true" ELSE "false">>
    /\ UNCHANGED <<alive, waiting>>

\* FramelessWidgetsHelper::isContentExtendedIntoTitleBar(): a query, which
\* still default-inserts the record of m_window.
QueryContentExtended(h) ==
    /\ alive[h]
    /\ Commit(GetWindowData(State, h))
    /\ op' = OtherCall(h)
    /\ UNCHANGED <<alive, waiting>>

\* ~FramelessWidgetsHelperPrivate(): m_destroying = true, then
\* extendsContentIntoTitleBar(false).  The object is gone afterwards, and
\* with it the single-shot timers whose context object it was.
Destroy(h) ==
    /\ alive[h]
    /\ ~waiting[h]
    /\ LET st == ExtendsContentIntoTitleBar(State, h, FALSE, TRUE)
       IN Commit([st EXCEPT !.mw[h] = NoWindow, !.tm[h] = 0, !.rp[h] = 0,
                            !.qpa[h] = FALSE, !.blur[h] = FALSE])
    /\ alive' = [alive EXCEPT ![h] = FALSE]
    /\ op' = <<"destroy", h, "">>
    /\ UNCHANGED waiting

\* loop.exec() in waitForReady returns on the instances that sit in it and
\* were just sent ready.
QuitEventLoops(st) ==
    LET woken == SelectSeq(HelperSeq,
                     LAMBDA x : waiting[x] /\ <<"emit", "ready", x>> \in Range(st.fx))
    IN [st EXCEPT !.fx = @ \o [i \in 1..Len(woken) |-> <<"waitReturns", woken[i], "">>]]

OptionNames(center, blurOpt) ==
    IF center THEN (IF blurOpt THEN "center+blur" ELSE "center")
    ELSE (IF blurOpt THEN "blur" ELSE "")

\* One pending single-shot timer of h fires and runs the lambda.  A ready
\* delivery quits the event loop of a waitForReady running on its receiver.
FireReady(h) ==
    /\ timers[h] > 0
    /\ \E center \in BOOLEAN, blurOpt \in BOOLEAN, platformOk \in BOOLEAN :
         /\ blurOpt \/ platformOk
         /\ LET st == QuitEventLoops(ReadyCallback([State EXCEPT !.tm[h] = @ - 1], h,
                                                   center, blurOpt, platformOk))
            IN /\ Commit(st)
               /\ waiting' = [x \in Helpers |->
                                waiting[x] /\ <<"waitReturns", x, "">> \notin Range(st.fx)]
         /\ op' = <<"readyCallback", h, OptionNames(center, blurOpt)>>
    /\ UNCHANGED alive

\* FramelessWidgetsHelper::waitForReady(): returns at once when m_qpaReady,
\* else enters a QEventLoop that the helper's ready signal quits.
WaitForReady(h) ==
    /\ alive[h]
    /\ ~waiting[h]
    /\ waiting' = [waiting EXCEPT ![h] = ~m_qpaReady[h]]
    /\ op' = <<"waitForReady", h, IF m_qpaReady[h] THEN "returned" ELSE "blocked">>
    /\ fx' = << >>
    /\ ret' = NoReturn
    /\ UNCHANGED <<alive, m_window, m_qpaReady, m_blurBehindWindowEnabled, timers,
                   g_data, registry, winAttrs, qwidgets, repaints>>

\* ---- calls on the per-window configuration; the lists stay within MaxList
ListRoom(h, field) ==
    m_window[h] /= NoWindow /\ m_window[h] \in DOMAIN g_data
        => Len(g_data[m_window[h]][field]) < MaxList

\* A pointer a caller may pass: null, or a widget that exists.
Passable(widget) == IF widget = NullWidget THEN TRUE ELSE qwidgets[widget].live

CallSetTitleBarWidget(h, widget) ==
    /\ alive[h]
    /\ Passable(widget)
    /\ Commit(SetTitleBarWidget(State, h, widget))
    /\ op' = OtherCall(h)
    /\ UNCHANGED <<alive, waiting>>

CallSetHitTestVisibleWidget(h, widget, visible) ==
    /\ alive[h]
    /\ Passable(widget)
    /\ visible => ListRoom(h, "hitTestVisibleWidgets")
    /\ Commit(SetHitTestVisibleWidget(State, h, widget, visible))
    /\ op' = OtherCall(h)
    /\ UNCHANGED <<alive, waiting>>

CallSetHitTestVisibleRect(h, rect, visible) ==
    /\ alive[h]
    /\ visible => ListRoom(h, "hitTestVisibleRects")
    /\ Commit(SetHitTestVisibleRect(State, h, rect, visible))
    /\ op' = OtherCall(h)
    /\ UNCHANGED <<alive, waiting>>

CallSetSystemButton(h, widget, buttonType) ==
    /\ alive[h]
    /\ Passable(widget)
    /\ Commit(SetSystemButton(State, h, widget, buttonType))
    /\ op' = OtherCall(h)
    /\ UNCHANGED <<alive, waiting>>

CallSetSystemButtonState(h, button, state) ==
    /\ alive[h]
    /\ Commit(SetSystemButtonState(State, h, button, state))
    /\ op' = OtherCall(h)
    /\ UNCHANGED <<alive, waiting>>

\* isInSystemButtons / isInTitleBarDraggableArea / getTitleBarWidget: each
\* starts with getWindowData().
CallHitTestQuery(h) ==
    /\ alive[h]
    /\ Commit(GetWindowData(State, h))
    /\ op' = OtherCall(h)
    /\ UNCHANGED <<alive, waiting>>

CallRepaintAllChildren(h) ==
    /\ alive[h]
    /\ Commit(RepaintAllChildren(State, h))
    /\ op' = OtherCall(h)
    /\ UNCHANGED <<alive, waiting>>

CallRepaintAllChildrenLater(h) ==
    /\ alive[h]
    /\ repaints[h] < MaxRepaints
    /\ Commit(RepaintAllChildrenLater(State, h))
    /\ op' = OtherCall(h)
    /\ UNCHANGED <<alive, waiting>>

\* One pending delayed repaint of h fires, once, and runs the lambda.
FireRepaint(h) ==
    /\ repaints[h] > 0
    /\ \E outcome \in {"crash", "survived"} :
          Commit(RepaintUpdate([State EXCEPT !.rp[h] = @ - 1], h, outcome))
    /\ op' = <<"repaintCallback", h, "">>
    /\ UNCHANGED <<alive, waiting>>

\* ---- the widgets' own life: the application hides, disables and deletes
\* them.  Deleting a widget deletes its children; what a deleted object held
\* is of no account, so its fields are reset.
WidgetStep ==
    /\ op' = <<"widget", "", "">>
    /\ fx' = << >>
    /\ ret' = NoReturn
    /\ UNCHANGED <<alive, m_window, m_qpaReady, m_blurBehindWindowEnabled, timers,
                   waiting, g_data, registry, winAttrs, repaints>>

WidgetSetVisible(x, visible) ==
    /\ qwidgets[x].live
    /\ qwidgets[x].visible /= visible
    /\ qwidgets' = [qwidgets EXCEPT ![x].visible = visible]
    /\ WidgetStep

WidgetSetEnabled(x, enabled) ==
    /\ qwidgets[x].live
    /\ qwidgets[x].enabled /= enabled
    /\ qwidgets' = [qwidgets EXCEPT ![x].enabled = enabled]
    /\ WidgetStep

WidgetDestroy(x) ==
    /\ qwidgets[x].live
    /\ qwidgets' = [y \in QWidgets |->
                       IF IsAncestorOrSelf(x, y)
                       THEN [qwidgets[y] EXCEPT !.live = FALSE, !.visible = TRUE,
                                                !.enabled = TRUE]
                       ELSE qwidgets[y]]
    /\ WidgetStep

\* QWidget::setWindowState by the window manager or the application.
WindowSetState(w, states) ==
    /\ qwidgets[w].windowState /= states
    /\ qwidgets' = [qwidgets EXCEPT ![w].windowState = states]
    /\ WidgetStep

\* ---- calls whose arguments and results are kept in ret
\* SystemParameters::shouldIgnoreMouseEvents
PublicShouldIgnoreMouseEvents(h, pos, frameBorderVisible) ==
    /\ alive[h]
    /\ Commit(ShouldIgnoreMouseEvents(State, h, pos, frameBorderVisible))
    /\ op' = OtherCall(h)
    /\ UNCHANGED <<alive, waiting>>

Traced(st, fn, widget, role) ==
    [st EXCEPT !.ret = [NoReturn EXCEPT !.fn = fn, !.widget = widget, !.role = role]]

\* FramelessWidgetsHelper::setSystemButton(widget, buttonType)
PublicSetSystemButton(h, widget, buttonType) ==
    /\ alive[h]
    /\ Passable(widget)
    /\ Commit(Traced(IF widget = NullWidget \/ buttonType = "Unknown" THEN State
                      ELSE SetSystemButton(State, h, widget, buttonType),
                      "setSystemButton", widget, buttonType))
    /\ op' = OtherCall(h)
    /\ UNCHANGED <<alive, waiting>>

\* SystemParameters::setSystemButtonState
PublicSetSystemButtonState(h, button, state) ==
    /\ alive[h]
    /\ Commit(Traced(SetSystemButtonState(State, h, button, state),
                      "setSystemButtonState", NullWidget, button))
    /\ op' = OtherCall(h)
    /\ UNCHANGED <<alive, waiting>>

\* SystemParameters::isInsideSystemButtons
PublicIsInSystemButtons(h, pos, button) ==
    /\ alive[h]
    /\ Commit(IsInSystemButtons(State, h, pos, button))
    /\ op' = OtherCall(h)
    /\ UNCHANGED <<alive, waiting>>

\* SystemParameters::isInsideTitleBarDraggableArea
PublicIsInTitleBarDraggableArea(h, pos) ==
    /\ alive[h]
    /\ Commit(IsInTitleBarDraggableArea(State, h, pos))
    /\ op' = OtherCall(h)
    /\ UNCHANGED <<alive, waiting>>

\* FramelessWidgetsHelper::titleBarWidget()
PublicTitleBarWidget(h) ==
    /\ alive[h]
    /\ Commit(GetTitleBarWidget(State, h))
    /\ op' = OtherCall(h)
    /\ UNCHANGED <<alive, waiting>>

\* ---- the members of FramelessWidgetsHelperPrivate called directly, valid
\* arguments or not; a call that would append waits for room in the list
PrivateCall(h, st, call) ==
    /\ alive[h]
    /\ Commit([st EXCEPT !.ret = call])
    /\ op' = OtherCall(h)
    /\ UNCHANGED <<alive, waiting>>

PrivateSetTitleBarWidget(h, widget) ==
    /\ Passable(widget)
    /\ PrivateCall(h, SetTitleBarWidget(State, h, widget),
                   [NoReturn EXCEPT !.fn = "setTitleBarWidget", !.widget = widget])

PrivateSetHitTestVisibleWidget(h, widget, visible) ==
    /\ Passable(widget)
    /\ (visible /\ widget /= NullWidget) => ListRoom(h, "hitTestVisibleWidgets")
    /\ PrivateCall(h, SetHitTestVisibleWidget(State, h, widget, visible),
                   [NoReturn EXCEPT !.fn = "setHitTestVisible(QWidget)",
                                    !.widget = widget, !.flag = visible])

PrivateSetHitTestVisibleRect(h, rect, visible) ==
    /\ (visible /\ RectIsValid(rect)) => ListRoom(h, "hitTestVisibleRects")
    /\ PrivateCall(h, SetHitTestVisibleRect(State, h, rect, visible),
                   [NoReturn EXCEPT !.fn = "setHitTestVisible(QRect)",
                                    !.rect = rect, !.flag = visible])

PrivateSetHitTestVisibleObject(h, object, visible) ==
    /\ (visible /\ QObjectCast(object) /= NullWidget)
          => ListRoom(h, "hitTestVisibleWidgets")
    /\ PrivateCall(h, SetHitTestVisibleObject(State, h, object, visible),
                   [NoReturn EXCEPT !.fn = "setHitTestVisible(QObject)",
                                    !.widget = object, !.flag = visible])

PrivateSetSystemButton(h, widget, buttonType) ==
    /\ Passable(widget)
    /\ PrivateCall(h, SetSystemButton(State, h, widget, buttonType),
                   [NoReturn EXCEPT !.fn = "setSystemButton", !.widget = widget,
                                    !.role = buttonType])

PrivateSetSystemButtonState(h, button, state) ==
    PrivateCall(h, SetSystemButtonState(State, h, button, state),
                [NoReturn EXCEPT !.fn = "setSystemButtonState", !.role = button])

PrivateWindowStartSystemResize2(h, edges, pos) ==
    PrivateCall(h, WindowStartSystemResize2(State, h, edges, pos),
                [NoReturn EXCEPT !.fn = "windowStartSystemResize2", !.edges = edges,
                                 !.pos = pos])

PrivateEmitSignalForAllInstances(h, signal) ==
    PrivateCall(h, EmitSignalForAllInstances(State, h, signal),
                [NoReturn EXCEPT !.fn = "emitSignalForAllInstances", !.signal = signal])

\* FramelessWidgetsHelper::get(object).  The object exists, and the model
\* has a helper left to stand for a new instance.
Get(object) ==
    /\ IF object \in QWidgets THEN qwidgets[object].live ELSE TRUE
    /\ LET parent == TopLevelOf(object)
           found == {x \in Helpers : alive[x] /\ HelperParent(x) = parent}
           fresh == {x \in Helpers : ~alive[x] /\ HelperParent(x) = parent}
       IN (object /= NullWidget /\ found = {})
             => (fresh /= {} /\ \A x \in fresh : timers[x] < MaxTimers)
    /\ LET st == FindOrCreateFramelessHelper(State, object)
       IN Commit(st) /\ alive' = st.live
    /\ op' = <<"get", "", "">>
    /\ UNCHANGED waiting

\* ---- next-state relations
LifecycleCalls(h) ==
    \/ \E value \in BOOLEAN : ExtendsContent(h, value)
    \/ QueryContentExtended(h)
    \/ Destroy(h)
    \/ FireReady(h)

ConfigCalls(h, widgets, roles, rects) ==
    \/ \E widget \in widgets : CallSetTitleBarWidget(h, widget)
    \/ \E widget \in widgets, visible \in BOOLEAN :
          CallSetHitTestVisibleWidget(h, widget, visible)
    \/ \E rect \in rects, visible \in BOOLEAN : CallSetHitTestVisibleRect(h, rect, visible)
    \/ \E widget \in widgets, role \in roles : CallSetSystemButton(h, widget, role)
    \/ \E role \in roles : CallSetSystemButtonState(h, role, "Hovered")
    \/ CallHitTestQuery(h)
    \/ CallRepaintAllChildren(h)

\* Two helper instances under one top-level window and one helper whose
\* parent is no widget.
SharedWindowHelpers == {"a", "b", "d"}

Next == \E h \in SharedWindowHelpers : LifecycleCalls(h) \/ WaitForReady(h)

\* The lifecycle of two instances under one window together with the calls
\* by which the first of them configures and queries the window's record.
NextConfig ==
    \/ \E h \in {"a", "b"} : LifecycleCalls(h)
    \/ ConfigCalls("a", {NullWidget, "wd1"}, {"Unknown", "Maximize", "Restore"},
                   {<<0, 0, 10, 10>>, <<0, 0, 0, 0>>})

\* The state right after construction, and the state after helper h has
\* attached and its deferred callback has run.
InitialState ==
    [mw |-> [x \in Helpers |-> NoWindow], tbl |-> << >>, reg |-> {},
     tm |-> [x \in Helpers |-> 0], attrs |-> [w \in Windows |-> FALSE],
     qpa |-> [x \in Helpers |-> FALSE], blur |-> [x \in Helpers |-> FALSE],
     fx |-> << >>, wid |-> DefaultWidgets, ret |-> NoReturn,
     live |-> [x \in Helpers |-> TRUE], rp |-> [x \in Helpers |-> 0]]

AttachedState(st, h) ==
    LET s1 == ExtendsContentIntoTitleBar(st, h, TRUE, FALSE)
        s2 == ReadyCallback([s1 EXCEPT !.tm[h] = @ - 1], h, FALSE, FALSE, TRUE)
    IN [s2 EXCEPT !.fx = << >>]

\* Start in state st.
InitWith(st) ==
    /\ alive = st.live
    /\ waiting = [h \in Helpers |-> FALSE]
    /\ m_window = st.mw
    /\ g_data = st.tbl
    /\ registry = st.reg
    /\ timers = st.tm
    /\ winAttrs = st.attrs
    /\ m_qpaReady = st.qpa
    /\ m_blurBehindWindowEnabled = st.blur
    /\ fx = st.fx
    /\ qwidgets = st.wid
    /\ ret = st.ret
    /\ repaints = st.rp
    /\ op = <<"init", "", "">>

\* ---- system buttons: helper a, attached to w1 or not, assigns the two
\* widgets to button slots, asks which button a point is in and sets button
\* states, while the widgets are hidden, disabled and deleted.
ButtonPoints == {<<385, 15>>, <<10, 15>>}

\* Helper h attached, with a title bar, an excluded widget and an excluded
\* rectangle set.
ConfiguredState(st, h) ==
    LET s1 == SetTitleBarWidget(AttachedState(st, h), h, "wd1")
        s2 == SetHitTestVisibleWidget(s1, h, "wd2", TRUE)
        s3 == SetHitTestVisibleRect(s2, h, <<100, 0, 50, 30>>, TRUE)
    IN [s3 EXCEPT !.fx = << >>]

InitButtons ==
    \E attached \in BOOLEAN :
        InitWith(IF attached THEN ConfiguredState(InitialState, "a") ELSE InitialState)

NextButtons ==
    \/ \E widget \in Widgets \cup {NullWidget}, role \in SystemButtonTypes :
          PublicSetSystemButton("a", widget, role)
    \/ \E role \in SystemButtonTypes : PublicSetSystemButtonState("a", role, "Hovered")
    \/ \E pos \in ButtonPoints, button \in {"Unknown", "Close"} :
          PublicIsInSystemButtons("a", pos, button)
    \/ \E visible \in BOOLEAN : WidgetSetVisible("wd1", visible)
    \/ \E enabled \in BOOLEAN : WidgetSetEnabled("wd2", enabled)
    \/ WidgetDestroy("wd2")

SpecButtons == InitButtons /\ [][NextButtons]_vars

\* ---- the draggable area: helper a, attached to w1 or not, sets the title
\* bar, a button and the exclusions and asks whether points are draggable,
\* while the widgets are hidden, disabled and deleted.  The title bar sits
\* at the window's top, ten pixels below it, or outside the window.
TitleBarPositions == {<<0, 0>>, <<0, 10>>, <<500, 0>>}

HitTestPoints == {<<385, 15>>, <<10, 15>>, <<10, 50>>, <<120, 15>>}

InitHitTest ==
    \E attached \in BOOLEAN, pos \in TitleBarPositions :
        LET st == [InitialState EXCEPT !.wid["wd1"].pos = pos]
        IN InitWith(IF attached THEN AttachedState(st, "a") ELSE st)

NextHitTest ==
    \/ CallSetTitleBarWidget("a", "wd1")
    \/ \E role \in {"WindowIcon", "Close"} : CallSetSystemButton("a", "wd2", role)
    \/ \E visible \in BOOLEAN : CallSetHitTestVisibleWidget("a", "wd2", visible)
    \/ \E visible \in BOOLEAN :
          CallSetHitTestVisibleRect("a", <<100, 0, 50, 30>>, visible)
    \/ \E pos \in HitTestPoints : PublicIsInTitleBarDraggableArea("a", pos)
    \/ PublicIsInSystemButtons("a", <<385, 15>>, "Unknown")
    \/ PublicSetSystemButtonState("a", "Close", "Hovered")
    \/ PublicTitleBarWidget("a")
    \/ \E x \in Widgets, visible \in BOOLEAN : WidgetSetVisible(x, visible)
    \/ \E enabled \in BOOLEAN : WidgetSetEnabled("wd2", enabled)
    \/ \E x \in Widgets : WidgetDestroy(x)

SpecHitTest == InitHitTest /\ [][NextHitTest]_vars

\* ---- both hit tests: helper a, attached to w1 or not, sets the title bar
\* and makes the widget at its right end a button, and asks both questions
\* about the same points, while the widgets are hidden and disabled.  The
\* title bar, the button's parent, sits at the window's origin or twenty
\* pixels to the right of it.
ButtonParentPositions == {<<0, 0>>, <<20, 0>>}

ExclusivePoints == {<<375, 15>>, <<395, 15>>, <<10, 15>>}

InitExclusive ==
    \E attached \in BOOLEAN, pos \in ButtonParentPositions :
        LET st == [InitialState EXCEPT !.wid["wd1"].pos = pos]
        IN InitWith(IF attached THEN AttachedState(st, "a") ELSE st)

NextExclusive ==
    \/ CallSetTitleBarWidget("a", "wd1")
    \/ \E role \in {"Minimize", "Close"} : CallSetSystemButton("a", "wd2", role)
    \/ \E pos \in ExclusivePoints : PublicIsInTitleBarDraggableArea("a", pos)
    \/ \E pos \in ExclusivePoints : PublicIsInSystemButtons("a", pos, "Unknown")
    \/ \E x \in Widgets, visible \in BOOLEAN : WidgetSetVisible(x, visible)
    \/ \E x \in Widgets, enabled \in BOOLEAN : WidgetSetEnabled(x, enabled)

SpecExclusive == InitExclusive /\ [][NextExclusive]_vars

\* ---- the window: helper a, attached to w1 or not, is asked about points
\* near the frame border and made to repaint, while the window changes its
\* state.  The window and the title bar each are resizable, bounded from
\* below or above by their size, or fixed in one of the three ways.
Sizings == {"free", "atMinimum", "atMaximum", "sameMinMax", "fixedPolicy", "fixedHint"}

Sized(widget, sizing) ==
    CASE sizing = "atMinimum"   -> [widget EXCEPT !.minimumSize = widget.size]
      [] sizing = "atMaximum"   -> [widget EXCEPT !.maximumSize = widget.size]
      [] sizing = "sameMinMax"  -> [widget EXCEPT !.minimumSize = widget.size,
                                                  !.maximumSize = widget.size]
      [] sizing = "fixedPolicy" -> [widget EXCEPT !.sizePolicy = <<"Fixed", "Fixed">>]
      [] sizing = "fixedHint"   -> [widget EXCEPT !.fixedSizeHint = TRUE]
      [] OTHER                  -> widget

BorderPoints ==
    {<<200, 3>>, <<3, 100>>, <<395, 100>>, <<392, 100>>, <<391, 100>>, <<200, 100>>}

WindowStateSets ==
    {{}, {"WindowActive"}, {"WindowMinimized"}, {"WindowMaximized"},
     {"WindowFullScreen"}, {"WindowMaximized", "WindowActive"}}

InitWindow ==
    \E attached \in BOOLEAN, sw \in Sizings, sc \in Sizings :
        LET st == [InitialState EXCEPT !.wid["w1"] = Sized(@, sw),
                                       !.wid["wd1"] = Sized(@, sc)]
        IN InitWith(IF attached THEN AttachedState(st, "a") ELSE st)

NextWindow ==
    \/ CallRepaintAllChildren("a")
    \/ \E pos \in BorderPoints, frameBorderVisible \in BOOLEAN :
          PublicShouldIgnoreMouseEvents("a", pos, frameBorderVisible)
    \/ \E states \in WindowStateSets : WindowSetState("w1", states)
    \/ WidgetDestroy("wd2")

SpecWindow == InitWindow /\ [][NextWindow]_vars

\* ---- arguments: helper a, unattached, attached or configured, has its
\* members called with arguments of every kind, the invalid ones among them.
ArgWidgets == {NullWidget, "wd1", "wd2"}

ArgObjects == {NullWidget, PlainObject, "wd2"}

ArgRoles == {"Unknown", "Maximize", "Close"}

ArgRects == {<<100, 0, 50, 30>>, <<0, 0, 0, 0>>, <<5, 5, 10, 0>>, <<5, 5, -3, 10>>}

ArgEdges == {{}, {"LeftEdge"}, {"TopEdge", "RightEdge"}}

ArgSignals == {NoSignal, "", "titleBarWidgetChanged"}

InitArgs ==
    \E kind \in {"new", "attached", "configured"} :
        InitWith(CASE kind = "new" -> InitialState
                   [] kind = "attached" -> AttachedState(InitialState, "a")
                   [] OTHER -> ConfiguredState(InitialState, "a"))

NextArgs ==
    \/ \E widget \in ArgWidgets : PrivateSetTitleBarWidget("a", widget)
    \/ \E widget \in ArgWidgets, visible \in BOOLEAN :
          PrivateSetHitTestVisibleWidget("a", widget, visible)
    \/ \E rect \in ArgRects, visible \in BOOLEAN :
          PrivateSetHitTestVisibleRect("a", rect, visible)
    \/ \E object \in ArgObjects, visible \in BOOLEAN :
          PrivateSetHitTestVisibleObject("a", object, visible)
    \/ \E widget \in ArgWidgets, role \in ArgRoles :
          PrivateSetSystemButton("a", widget, role)
    \/ \E role \in ArgRoles : PrivateSetSystemButtonState("a", role, "Hovered")
    \/ \E edges \in ArgEdges : PrivateWindowStartSystemResize2("a", edges, <<0, 0>>)
    \/ \E signal \in ArgSignals : PrivateEmitSignalForAllInstances("a", signal)

SpecArgs == InitArgs /\ [][NextArgs]_vars

\* ---- get: helpers come into being through get() - or, for some of those
\* below w1, were constructed by the application beforehand - and are used
\* and deleted by the application.
GetObjects == {NullWidget, "w1", "wd2", PlainObject}

InitGet ==
    \E constructed \in SUBSET {"a", "b"} :
        InitWith([InitialState EXCEPT !.live = [x \in Helpers |-> x \in constructed]])

NextGet ==
    \/ \E object \in GetObjects : Get(object)
    \/ \E h \in SharedWindowHelpers :
          \/ \E value \in BOOLEAN : ExtendsContent(h, value)
          \/ Destroy(h)
          \/ FireReady(h)

SpecGet == InitGet /\ [][NextGet]_vars

\* ---- delayed repaint: helper a attaches, detaches, is destroyed and
\* asks for repaints now and later, while the timers fire.
NextRepaint ==
    \/ \E value \in BOOLEAN : ExtendsContent("a", value)
    \/ FireReady("a")
    \/ Destroy("a")
    \/ CallRepaintAllChildren("a")
    \/ CallRepaintAllChildrenLater("a")
    \/ FireRepaint("a")

SpecRepaint == Init /\ [][NextRepaint]_vars

SpecConfig == Init /\ [][NextConfig]_vars

Spec == Init /\ [][Next]_vars

\* ====================================================================
\* Properties
\* ====================================================================
Core == <<alive, m_window, m_qpaReady, m_blurBehindWindowEnabled, timers,
          waiting, g_data, registry, winAttrs>>

ExtCall(h, value) ==
    <<"extendsContentIntoTitleBar", h, IF value THEN "true" ELSE "false">>

Kinds(s) == {s[i][1] : i \in 1..Len(s)}

\* C1: attach is idempotent.  When extendsContentIntoTitleBar(true) is called
\* on a helper right after the same call on the same helper, the second call
\* leaves the table, the registry, the window reference and the pending
\* callbacks as the first call left them and calls neither addWindow nor
\* singleShot again; and when the first call gave the helper its window, the
\* state is one ready record, registered once.
C1_AttachIdempotent ==
    [][\A h \in Helpers :
         (op = ExtCall(h, TRUE) /\ op' = ExtCall(h, TRUE)) =>
            /\ UNCHANGED Core
            /\ Kinds(fx') \cap {"addWindow", "singleShot", "setWindow", "ready=true"} = {}
            /\ <<"setWindow", h, ParentWindow(h)>> \in Range(fx) =>
                  /\ ParentWindow(h) \in DOMAIN g_data'
                  /\ g_data'[ParentWindow(h)].ready
                  /\ ParentWindow(h) \in registry'
                  /\ fx' = << >>
                  /\ (<<"addWindow", ParentWindow(h), "">> \in Range(fx)
                        => Count(fx, <<"addWindow", ParentWindow(h), "">>) = 1
                           /\ Count(fx, <<"singleShot", h, "">>) = 1
                           /\ timers'[h] >= 1)
      ]_vars

\* Reached by attach, attach: the second call found the helper attached.
C1_Witness ==
    /\ op = ExtCall("a", TRUE)
    /\ fx = << >>
    /\ m_window["a"] = "w1"
    /\ "w1" \in DOMAIN g_data /\ g_data["w1"].ready
    /\ registry = {"w1"}
    /\ timers["a"] = 1

\* C2: after every extendsContentIntoTitleBar(value) call on a helper whose
\* parent resolves to a window, isContentExtendedIntoTitleBar() on that
\* helper equals value: true after attach, false after detach.
C2_FlagMatchesLastCall ==
    \A h \in Helpers : \A value \in BOOLEAN :
        (alive[h] /\ ParentWindow(h) /= NoWindow /\ op = ExtCall(h, value))
            => (ContentExtended(h) = value)

\* C3: a detach of an attached window, from extendsContentIntoTitleBar(false)
\* or from the destructor, erases the window's record and calls removeWindow
\* for it exactly once; removeWindow is only ever called for a window that is
\* registered, once per registration, and addWindow only for one that is not.
C3_DetachUnregistersOnce ==
    [][/\ \A h \in Helpers :
            (ContentExtended(h) /\ op' \in {ExtCall(h, FALSE), <<"destroy", h, "">>}) =>
               LET w == m_window[h] IN
               /\ Count(fx', <<"erase", w, "">>) = 1
               /\ Count(fx', <<"removeWindow", w, "">>) = 1
               /\ w \notin DOMAIN g_data'
               /\ w \notin registry'
       /\ \A w \in Windows :
            /\ Count(fx', <<"removeWindow", w, "">>) <= 1
            /\ <<"removeWindow", w, "">> \in Range(fx') => w \in registry /\ w \notin registry'
            /\ Count(fx', <<"addWindow", w, "">>) <= 1
            /\ <<"addWindow", w, "">> \in Range(fx') => w \notin registry /\ w \in registry'
      ]_vars

\* Reached by attach, destroy: the destructor's detach unregistered w1.
C3_Witness ==
    /\ op = <<"destroy", "a", "">>
    /\ <<"removeWindow", "w1", "">> \in Range(fx)
    /\ "w1" \notin registry
    /\ "w1" \notin DOMAIN g_data

\* C4: waitForReady makes progress.  An instance whose deferred callback has
\* run (m_qpaReady set) is not left sitting in waitForReady, a call made with
\* the flag set returns at once, and whenever waitForReady returns on an
\* instance that holds a window, that instance's flag is set.
C4_WaitForReadyProgress ==
    \A h \in Helpers :
        /\ waiting[h] => ~m_qpaReady[h]
        /\ op = <<"waitForReady", h, "returned">> => m_qpaReady[h]
        /\ (<<"waitReturns", h, "">> \in Range(fx) /\ m_window[h] /= NoWindow)
              => m_qpaReady[h]

\* An event's label: the signal's name for a delivery, else the event's kind.
Label(e) == IF e[1] = "emit" THEN e[2] ELSE e[1]

\* Position of the first event with one of the labels in s (Len(s)+1 if
\* none) and of the last one (0 if none).
FirstOf(s, labels) ==
    LET I == {i \in 1..Len(s) : Label(s[i]) \in labels}
    IN IF I = {} THEN Len(s) + 1 ELSE CHOOSE i \in I : \A j \in I : i <= j

LastOf(s, labels) ==
    LET I == {i \in 1..Len(s) : Label(s[i]) \in labels}
    IN IF I = {} THEN 0 ELSE CHOOSE i \in I : \A j \in I : i >= j

\* Every event labelled early comes before every event labelled late.
Before(s, early, late) == LastOf(s, early) < FirstOf(s, late)

\* C5: the deferred callback of a helper first sets m_qpaReady, then centers
\* the window iff CenterWindowBeforeShow is set, then turns blur-behind on if
\* EnableBlurBehindWindow is set, then delivers windowChanged and after it
\* ready, each exactly once to every helper instance under the window.
C5_ReadyCallbackOrder ==
    [][/\ "ready" \in {Label(fx'[i]) : i \in 1..Len(fx')} =>
            /\ op'[1] = "readyCallback"
            /\ m_qpaReady'[op'[2]]
            /\ Before(fx', {"m_qpaReady", "windowChanged"}, {"ready"})
       /\ \A h \in Helpers :
         (op'[1] = "readyCallback" /\ op'[2] = h /\ m_window[h] /= NoWindow) =>
            LET w == m_window[h]
                center == op'[3] \in {"center", "center+blur"}
                blurOpt == op'[3] \in {"blur", "center+blur"}
            IN /\ fx'[1] = <<"m_qpaReady", h, "">> /\ m_qpaReady'[h]
               /\ Count(fx', <<"m_qpaReady", h, "">>) = 1
               /\ (center <=> "center" \in Kinds(fx'))
               /\ ("blur" \in Kinds(fx') <=> (blurOpt /\ ~m_blurBehindWindowEnabled[h]))
               /\ blurOpt => (m_blurBehindWindowEnabled'[h]
                              \/ <<"blur", w, "failed">> \in Range(fx'))
               /\ Before(fx', {"m_qpaReady"}, {"center"})
               /\ Before(fx', {"center"}, {"blur"})
               /\ Before(fx', {"m_qpaReady", "center", "blur"}, {"windowChanged"})
               /\ Before(fx', {"windowChanged"}, {"ready"})
               /\ \A x \in Helpers :
                    LET bound == alive[x] /\ ParentWindow(x) = w
                    IN /\ Count(fx', <<"emit", "windowChanged", x>>) = (IF bound THEN 1 ELSE 0)
                       /\ Count(fx', <<"emit", "ready", x>>) = (IF bound THEN 1 ELSE 0)
      ]_vars

\* Reached by two attaches and one timer: both options set, both instances
\* under w1 notified.
C5_Witness ==
    /\ op = <<"readyCallback", "a", "center+blur">>
    /\ fx = << <<"m_qpaReady", "a", "">>, <<"center", "w1", "params">>,
               <<"blur", "w1", "ok">>,
               <<"emit", "blurBehindWindowEnabledChanged", "a">>,
               <<"emit", "blurBehindWindowEnabledChanged", "b">>,
               <<"emit", "windowChanged", "a">>, <<"emit", "windowChanged", "b">>,
               <<"emit", "ready", "a">>, <<"emit", "ready", "b">> >>

\* C6: a detach outside teardown erases the record, then unregisters the
\* window, then clears m_window, and then delivers windowChanged to every
\* helper instance under the window.
C6_DetachOrder ==
    \A h \in Helpers :
        (op = ExtCall(h, FALSE) /\ "erase" \in Kinds(fx)) =>
            /\ Before(fx, {"erase"}, {"removeWindow"})
            /\ Before(fx, {"removeWindow"}, {"clearWindow"})
            /\ Before(fx, {"clearWindow"}, {"windowChanged"})
            /\ \A x \in Helpers :
                 (alive[x] /\ ParentWindow(x) = ParentWindow(h))
                     => <<"emit", "windowChanged", x>> \in Range(fx)

\* C7: an extendsContentIntoTitleBar(value) call that changes the flag the
\* calling helper reports delivers extendsContentIntoTitleBarChanged to every
\* helper instance under the window, whichever the direction.
C7_ExtendsChangedDelivered ==
    [][\A h \in Helpers : \A value \in BOOLEAN :
         (op' = ExtCall(h, value) /\ ContentExtended(h) /= value /\ ContentExtended(h)' = value)
            => \A x \in Helpers :
                 (alive[x] /\ ParentWindow(x) = ParentWindow(h))
                     => <<"emit", "extendsContentIntoTitleBarChanged", x>> \in Range(fx')
      ]_vars

\* C8: a detach clears the window reference and leaves the pending callback
\* in place; a callback that finds the reference unset only sets m_qpaReady:
\* it centers nothing, blurs nothing and delivers nothing.
C8_DetachedCallbackSuppressed ==
    [][\A h \in Helpers :
         /\ (op' = ExtCall(h, FALSE) /\ "erase" \in Kinds(fx'))
               => (m_window'[h] = NoWindow /\ timers'[h] = timers[h])
         /\ (op'[1] = "readyCallback" /\ op'[2] = h /\ m_window[h] = NoWindow)
               => /\ fx' = << <<"m_qpaReady", h, "">> >>
                  /\ Kinds(fx') \cap {"center", "blur"} = {}
                  /\ UNCHANGED <<m_blurBehindWindowEnabled, g_data, registry, m_window>>
      ]_vars

\* Reached by attach, detach, timer with both options set.
C8_Witness ==
    /\ op = <<"readyCallback", "a", "center+blur">>
    /\ m_window["a"] = NoWindow
    /\ fx = << <<"m_qpaReady", "a", "">> >>

\* C9: a helper whose parent is absent or not a widget never gets a window:
\* its window reference stays unset, it reports false, it has no callback
\* pending, and an attach on it changes nothing and calls nothing.
C9_NoWindowAttachFails ==
    [][\A h \in Helpers :
         ParentWindow(h) = NoWindow =>
            /\ m_window'[h] = NoWindow
            /\ timers'[h] = 0
            /\ ~ContentExtended(h)'
            /\ op' = ExtCall(h, TRUE) =>
                  (fx' = << >> /\ UNCHANGED <<g_data, registry, timers, m_window, winAttrs>>)
      ]_vars

\* Reached by one attach on the helper without a window.
C9_Witness ==
    /\ op = ExtCall("d", TRUE)
    /\ m_window["d"] = NoWindow
    /\ g_data = << >>
    /\ registry = {}

\* The table with a missing record read as a default one, which is what
\* every accessor makes of it.
Normalised(tbl) ==
    [w \in Windows |-> IF w \in DOMAIN tbl THEN tbl[w] ELSE FramelessWidgetsHelperData]

\* C10: the value isContentExtendedIntoTitleBar() reports for a helper turns
\* true only in an extendsContentIntoTitleBar(true) call and false only in an
\* extendsContentIntoTitleBar(false) call or a destructor's detach; setters,
\* queries, setSystemButtonState, repaint and the ready callback leave it
\* alone, and a call that asks for the value the helper already reports
\* delivers nothing and changes nothing any accessor can read.
C10_FlagOnlyByAttachDetach ==
    [][\A h \in Helpers :
         /\ (~ContentExtended(h) /\ ContentExtended(h)')
               => (op'[1] = "extendsContentIntoTitleBar" /\ op'[3] = "true"
                   /\ ParentWindow(op'[2]) = ParentWindow(h))
         /\ (ContentExtended(h) /\ ~ContentExtended(h)')
               => (\/ op'[1] = "extendsContentIntoTitleBar" /\ op'[3] = "false"
                   \/ op'[1] = "destroy")
         /\ \A value \in BOOLEAN :
              (op' = ExtCall(h, value) /\ ContentExtended(h) = value)
                 => /\ fx' = << >>
                    /\ Normalised(g_data') = Normalised(g_data)
                    /\ UNCHANGED <<alive, m_window, m_qpaReady,
                                   m_blurBehindWindowEnabled, timers, waiting,
                                   registry, winAttrs>>
      ]_vars

\* Reached by attach, setTitleBarWidget: the setter changed the record of an
\* attached window and the flag still reads true.
C10_Witness ==
    /\ op = OtherCall("a")
    /\ ContentExtended("a")
    /\ g_data["w1"].titleBarWidget = "wd1"
    /\ <<"emit", "titleBarWidgetChanged", "a">> \in Range(fx)

\* C11: the table holds no stale record.  Every record in the table belongs
\* to a window that is attached (its ready field is set); once a window was
\* detached or its helper destroyed the table has no record for it until the
\* next attach, whatever is called on any helper in between.
C11_NoStaleRecords ==
    \A w \in Windows : w \in DOMAIN g_data => g_data[w].ready

\* C12: the detach a destructor triggers delivers no notification: a destroy
\* step makes no delivery of any signal to any instance.
C12_TeardownSilent ==
    op[1] = "destroy" => \A i \in 1..Len(fx) : fx[i][1] /= "emit"

\* Reached by attach on a, then destroy of a while b lives under the same
\* window: the destructor's detach ran in full.
C12_Witness ==
    /\ op = <<"destroy", "a", "">>
    /\ alive["b"]
    /\ fx = << <<"erase", "w1", "">>, <<"removeWindow", "w1", "">>,
               <<"clearWindow", "a", "">> >>

\* The widgets of h's record as a caller reads them, and the button slots
\* with their roles in the order of priority.
Record(h) == DataOf([mw |-> m_window, tbl |-> g_data], h)

Priority ==
    << <<"windowIconButton", "WindowIcon">>, <<"contextHelpButton", "Help">>,
       <<"minimizeButton", "Minimize">>, <<"maximizeButton", "Maximize">>,
       <<"closeButton", "Close">> >>

\* The button in the slot is assigned, alive, visible and enabled and its
\* rectangle contains p.
ButtonAt(h, slot, p) ==
    LET x == Record(h).buttons[slot]
    IN /\ x /= NullWidget
       /\ qwidgets[x].live /\ qwidgets[x].visible /\ qwidgets[x].enabled
       /\ RectContains(Geometry(qwidgets, x), p)

\* C14: isInSystemButtons(p) returns true exactly when some assigned, visible
\* and enabled button's rectangle contains p, reports the role of the first
\* such button in the order window-icon, help, minimize, maximize/restore,
\* close, and reports Unknown whenever it returns false.
C14_FirstButtonWins ==
    \A h \in Helpers :
        (op = OtherCall(h) /\ ret.fn = "isInSystemButtons") =>
            /\ ret.val <=> (m_window[h] /= NoWindow
                             /\ \E i \in 1..5 : ButtonAt(h, Priority[i][1], ret.pos))
            /\ ret.val =>
                  \E i \in 1..5 :
                      /\ ButtonAt(h, Priority[i][1], ret.pos)
                      /\ \A j \in 1..(i - 1) : ~ButtonAt(h, Priority[j][1], ret.pos)
                      /\ ret.role = Priority[i][2]
            /\ ~ret.val => ret.role = "Unknown"

\* The slot a role stands for: Maximize and Restore name the same one.
SlotFor(role) ==
    IF role = "Restore" THEN "maximizeButton"
    ELSE LET i == CHOOSE i \in 1..5 : Priority[i][2] = role IN Priority[i][1]

\* C16: setSystemButtonState(role, state) for a role whose slot holds no live
\* widget - never assigned, the widget deleted, or the helper without a
\* window - sends no event to any widget and changes no field of any record.
C16_UnassignedStateNoOp ==
    [][\A h \in Helpers :
         (/\ op' = OtherCall(h) /\ ret'.fn = "setSystemButtonState"
          /\ ret'.role /= "Unknown"
          /\ LET x == Record(h).buttons[SlotFor(ret'.role)]
             IN IF x = NullWidget THEN TRUE ELSE ~qwidgets[x].live)
            => /\ fx' = << >>
               /\ Normalised(g_data') = Normalised(g_data)
               /\ UNCHANGED <<qwidgets, m_window, registry, timers>>
      ]_vars

\* Reached by setSystemButton(wd2, Close), delete wd2, setSystemButtonState(
\* Close): the slot still names the deleted widget and nothing was sent.
C16_Witness ==
    /\ op = OtherCall("a") /\ ret.fn = "setSystemButtonState" /\ ret.role = "Close"
    /\ m_window["a"] = "w1"
    /\ g_data["w1"].buttons["closeButton"] = "wd2" /\ ~qwidgets["wd2"].live
    /\ fx = << >>

\* C17: setSystemButton(widget, role) with a widget and a role other than
\* Unknown, on a helper that holds a window, stores the widget in the slot
\* of the role and leaves the other four slots, the title-bar widget, both
\* exclusion lists and every other record as they were; Maximize and Restore
\* store into the same slot.
C17_SlotsIndependent ==
    [][\A h \in Helpers :
         (/\ op' = OtherCall(h) /\ ret'.fn = "setSystemButton"
          /\ ret'.widget /= NullWidget /\ ret'.role /= "Unknown"
          /\ m_window[h] /= NoWindow)
            => /\ m_window[h] \in DOMAIN g_data'
               /\ g_data'[m_window[h]] =
                      [Record(h) EXCEPT !.buttons[SlotFor(ret'.role)] = ret'.widget]
               /\ \A w \in Windows \ {m_window[h]} :
                      Normalised(g_data')[w] = Normalised(g_data)[w]
               /\ ret'.role \in {"Maximize", "Restore"}
                      => g_data'[m_window[h]].buttons["maximizeButton"] = ret'.widget
               /\ fx' = << >>
      ]_vars

\* Reached by setSystemButton(wd1, Close), setSystemButton(wd1, Maximize),
\* setSystemButton(wd2, Restore): the shared slot was overwritten, the close
\* slot, the title bar and the lists kept.
C17_Witness ==
    /\ op = OtherCall("a") /\ ret.fn = "setSystemButton"
    /\ ret.role = "Restore" /\ ret.widget = "wd2"
    /\ m_window["a"] = "w1"
    /\ g_data["w1"].buttons["maximizeButton"] = "wd2"
    /\ g_data["w1"].buttons["closeButton"] = "wd1"
    /\ g_data["w1"].buttons["minimizeButton"] = NullWidget
    /\ g_data["w1"].titleBarWidget = "wd1"
    /\ g_data["w1"].hitTestVisibleRects = << <<100, 0, 50, 30>> >>

\* A widget's rectangle in the coordinates of its window: its size at the
\* sum of the positions of the widget and of its ancestors below the window.
RECURSIVE OriginInWindow(_)
OriginInWindow(x) ==
    IF x \in Windows \/ x = NullWidget THEN <<0, 0>>
    ELSE LET o == OriginInWindow(ParentWidget(x))
         IN <<qwidgets[x].pos[1] + o[1], qwidgets[x].pos[2] + o[2]>>

MappedRect(x) ==
    <<OriginInWindow(x)[1], OriginInWindow(x)[2], qwidgets[x].size[1],
      qwidgets[x].size[2]>>

InRect(r, p) ==
    p[1] >= r[1] /\ p[1] <= r[1] + r[3] - 1 /\ p[2] >= r[2] /\ p[2] <= r[2] + r[4] - 1

Shown(x) == qwidgets[x].live /\ qwidgets[x].visible /\ qwidgets[x].enabled

\* What C13 and its amendment have in common: the helper holds a window, the
\* title bar is set, visible and enabled, its mapped rectangle meets the
\* window's client rectangle and holds p, and p is outside the mapped
\* rectangle of every visible and enabled system button and outside every
\* excluded rectangle.
InTitleBarOutsideButtons(h, p) ==
    /\ m_window[h] /= NoWindow
    /\ LET data == Record(h)
           tb == data.titleBarWidget
       IN /\ tb /= NullWidget
          /\ Shown(tb)
          /\ LET t == MappedRect(tb)
                 w == qwidgets[m_window[h]].size
             IN /\ t[1] < w[1] /\ t[2] < w[2] /\ t[1] + t[3] > 0 /\ t[2] + t[4] > 0
                /\ InRect(t, p)
          /\ \A slot \in ButtonSlots :
                (data.buttons[slot] /= NullWidget /\ Shown(data.buttons[slot]))
                    => ~InRect(MappedRect(data.buttons[slot]), p)
          /\ \A i \in 1..Len(data.hitTestVisibleRects) :
                ~InRect(data.hitTestVisibleRects[i], p)

\* The example of the spec: title bar (0,0,400,30) with the close button at
\* (370,0,30,30), both shown, and no other exclusion.
ExampleLayout(h) ==
    /\ m_window[h] = "w1"
    /\ qwidgets["w1"].size = <<400, 300>>
    /\ Record(h).titleBarWidget = "wd1" /\ Shown("wd1")
    /\ MappedRect("wd1") = <<0, 0, 400, 30>>
    /\ Record(h).buttons = [FramelessWidgetsHelperData.buttons EXCEPT !["closeButton"] = "wd2"]
    /\ Shown("wd2") /\ MappedRect("wd2") = <<370, 0, 30, 30>>
    /\ Record(h).hitTestVisibleWidgets = << >>
    /\ Record(h).hitTestVisibleRects = << >>

ExampleHolds(h) ==
    ExampleLayout(h) =>
        /\ ret.pos = <<385, 15>> => ~ret.val
        /\ ret.pos = <<10, 15>> => ret.val
        /\ ret.pos = <<10, 50>> => ~ret.val

\* C13 as stated: isInTitleBarDraggableArea(p) is true exactly when the
\* helper holds a window, the title bar is set, visible and enabled, its
\* mapped rectangle meets the window's client rectangle, and p is in the
\* title bar's rectangle, outside every visible and enabled system button,
\* outside the mapped rectangle of every hit-test-excluded widget and
\* outside every excluded rectangle.
C13_DraggableArea ==
    \A h \in Helpers :
        (op = OtherCall(h) /\ ret.fn = "isInTitleBarDraggableArea") =>
            /\ ret.val <=>
                  /\ InTitleBarOutsideButtons(h, ret.pos)
                  /\ \A i \in 1..Len(Record(h).hitTestVisibleWidgets) :
                        LET x == Record(h).hitTestVisibleWidgets[i]
                        IN qwidgets[x].live => ~InRect(MappedRect(x), ret.pos)
            /\ ExampleHolds(h)

\* C13 amended: as C13, but only the hit-test-excluded widgets that are
\* visible and enabled are cut out of the title bar; a hidden or disabled
\* excluded widget leaves its rectangle draggable.
C13_DraggableAreaShownExclusions ==
    \A h \in Helpers :
        (op = OtherCall(h) /\ ret.fn = "isInTitleBarDraggableArea") =>
            /\ ret.val <=>
                  /\ InTitleBarOutsideButtons(h, ret.pos)
                  /\ \A i \in 1..Len(Record(h).hitTestVisibleWidgets) :
                        LET x == Record(h).hitTestVisibleWidgets[i]
                        IN Shown(x) => ~InRect(MappedRect(x), ret.pos)
            /\ ExampleHolds(h)

\* Reached by attach, setTitleBarWidget(wd1), setHitTestVisible(wd2, true),
\* hide wd2, isInTitleBarDraggableArea((385,15)): the point inside the hidden
\* excluded widget is draggable.
C13_Witness ==
    /\ op = OtherCall("a") /\ ret.fn = "isInTitleBarDraggableArea"
    /\ ret.pos = <<385, 15>> /\ ret.val
    /\ g_data["w1"].titleBarWidget = "wd1"
    /\ g_data["w1"].hitTestVisibleWidgets = << "wd2" >>
    /\ qwidgets["wd2"].live /\ ~qwidgets["wd2"].visible
    /\ MappedRect("wd2") = <<370, 0, 30, 30>>

\* The table with every reference to a deleted widget taken out: slots
\* emptied, list entries removed.
Emptied(x) == IF x /= NullWidget /\ ~qwidgets[x].live THEN NullWidget ELSE x

Scrubbed(tbl) ==
    [w \in DOMAIN tbl |->
        [tbl[w] EXCEPT
            !.titleBarWidget = Emptied(@),
            !.buttons = [slot \in ButtonSlots |-> Emptied(tbl[w].buttons[slot])],
            !.hitTestVisibleWidgets = SelectSeq(@, LAMBDA x : qwidgets[x].live)]]

\* C18: once a widget stored as title bar, system button or excluded widget
\* is deleted, isInSystemButtons, isInTitleBarDraggableArea,
\* setSystemButtonState and getTitleBarWidget return and do what they would
\* with that slot or list entry empty, and call no member of a deleted
\* widget.
C18_WeakReferences ==
    \A h \in Helpers :
        op = OtherCall(h) =>
            LET clean == [State EXCEPT !.tbl = Scrubbed(g_data)]
            IN /\ \A x \in ret.touched : qwidgets[x].live
               /\ \A i \in 1..Len(fx) :
                     fx[i][1] = "emulateQtMouseEvent" => qwidgets[fx[i][2]].live
               /\ ret.fn = "isInTitleBarDraggableArea"
                     => ret = IsInTitleBarDraggableArea(clean, h, ret.pos).ret
               /\ (ret.fn = "isInSystemButtons" /\ m_window[h] /= NoWindow)
                     => ret = IsInSystemButtons(clean, h, ret.pos, "Unknown").ret
               /\ ret.fn = "getTitleBarWidget"
                     => ret = GetTitleBarWidget(clean, h).ret
               /\ ret.fn = "setSystemButtonState"
                     => fx = SetSystemButtonState(clean, h, ret.role, "Hovered").fx

\* Reached by attach, setTitleBarWidget(wd1), setSystemButton(wd2, Close),
\* delete wd2, isInTitleBarDraggableArea((385,15)): the point where the
\* deleted button was is draggable.
C18_Witness ==
    /\ op = OtherCall("a") /\ ret.fn = "isInTitleBarDraggableArea"
    /\ ret.pos = <<385, 15>> /\ ret.val /\ ret.touched = {"wd1"}
    /\ g_data["w1"].titleBarWidget = "wd1"
    /\ g_data["w1"].buttons["closeButton"] = "wd2"
    /\ ~qwidgets["wd2"].live

\* C15: shouldIgnoreMouseEvents(p) is true exactly when the helper holds a
\* window, the window is neither minimized nor maximized nor fullscreen, and
\* p.y is below the border thickness of 8 or - where no native frame border
\* is visible - p.x is below 8 or at least the window's width minus 8.
C15_IgnoreInBorderBand ==
    \A h \in Helpers :
        (op = OtherCall(h) /\ ret.fn = "shouldIgnoreMouseEvents") =>
            (ret.val <=>
               /\ m_window[h] /= NoWindow
               /\ qwidgets[m_window[h]].windowState
                     \cap {"WindowMinimized", "WindowMaximized", "WindowFullScreen"} = {}
               /\ \/ ret.pos[2] < 8
                  \/ /\ ~ret.flag
                     /\ \/ ret.pos[1] < 8
                        \/ ret.pos[1] >= qwidgets[m_window[h]].size[1] - 8)

\* Reached by attach, maximize, shouldIgnoreMouseEvents((200,3)): the point
\* at y = 3 is not ignored on a maximized window.
C15_Witness ==
    /\ op = OtherCall("a") /\ ret.fn = "shouldIgnoreMouseEvents"
    /\ m_window["a"] = "w1"
    /\ "WindowMaximized" \in qwidgets["w1"].windowState
    /\ ret.pos = <<200, 3>> /\ ~ret.val

\* A widget is fixed-size: the fixed-size window hint, equal non-empty
\* minimum and maximum size, or a Fixed/Fixed size policy.
FixedSize(x) ==
    \/ qwidgets[x].fixedSizeHint
    \/ /\ qwidgets[x].minimumSize = qwidgets[x].maximumSize
       /\ qwidgets[x].minimumSize[1] > 0 /\ qwidgets[x].minimumSize[2] > 0
    \/ qwidgets[x].sizePolicy = <<"Fixed", "Fixed">>

\* C19: a repaint issues no resize on a fixed-size widget but still the
\* three moves, issues neither resize nor move on a window that is
\* minimized, maximized or fullscreen, resizes and moves every other widget
\* it visits, and leaves every widget's size and position as before.
C19_RepaintKeepsGeometry ==
    [][\A x \in QWidgets :
         <<"forceWidgetRepaint", x, "">> \in Range(fx') =>
            LET parked == /\ IsWindow(x)
                          /\ qwidgets[x].windowState
                                \cap {"WindowMinimized", "WindowMaximized",
                                      "WindowFullScreen"} /= {}
                resizes == Cardinality({i \in 1..Len(fx') :
                                          fx'[i][1] = "resize" /\ fx'[i][2] = x})
                moves == Cardinality({i \in 1..Len(fx') :
                                        fx'[i][1] = "move" /\ fx'[i][2] = x})
            IN /\ FixedSize(x) => resizes = 0
               /\ parked => (resizes = 0 /\ moves = 0)
               /\ ~parked => moves = 3
               /\ (~parked /\ ~FixedSize(x)) => resizes = 3
               /\ qwidgets'[x].size = qwidgets[x].size
               /\ qwidgets'[x].pos = qwidgets[x].pos
      ]_vars

\* Reached by attach and a repaint of a normal window whose title bar has a
\* Fixed/Fixed size policy: the title bar was moved and not resized, the
\* window resized and moved.
C19_Witness ==
    /\ op = OtherCall("a")
    /\ qwidgets["wd1"].sizePolicy = <<"Fixed", "Fixed">>
    /\ qwidgets["w1"].windowState = {}
    /\ <<"move", "wd1", "minus">> \in Range(fx)
    /\ <<"resize", "wd1", "shrunk">> \notin Range(fx)
    /\ <<"resize", "w1", "shrunk">> \in Range(fx)
    /\ qwidgets["wd1"].size = <<400, 30>> /\ qwidgets["wd1"].pos = <<0, 0>>

\* The call described by r was given an invalid argument.
InvalidArgument(r) ==
    \/ /\ r.fn \in {"setTitleBarWidget", "setHitTestVisible(QWidget)",
                     "setHitTestVisible(QObject)"}
       /\ r.widget \notin QWidgets
    \/ r.fn = "setSystemButton" /\ (r.widget \notin QWidgets \/ r.role = "Unknown")
    \/ r.fn = "setSystemButtonState" /\ r.role = "Unknown"
    \/ r.fn = "setHitTestVisible(QRect)" /\ (r.rect[3] <= 0 \/ r.rect[4] <= 0)
    \/ r.fn = "windowStartSystemResize2" /\ r.edges = {}
    \/ r.fn = "emitSignalForAllInstances" /\ r.signal \in {NoSignal, ""}

\* C20: a call with an invalid argument - a null widget or object, the role
\* Unknown, an invalid rectangle, no resize edge, a null or empty signal
\* name - leaves the table of records and every other part of the state as
\* it was and has no effect: no signal delivered, no platform call made.
C20_InvalidArgumentNoOp ==
    [][InvalidArgument(ret') =>
          /\ fx' = << >>
          /\ UNCHANGED <<alive, m_window, m_qpaReady, m_blurBehindWindowEnabled,
                         timers, waiting, g_data, registry, winAttrs, qwidgets>>
      ]_vars

\* Reached from the configured state by setHitTestVisible(QRect(5,5,10,0),
\* true): the record still holds its one valid rectangle.
C20_Witness ==
    /\ op = OtherCall("a") /\ ret.fn = "setHitTestVisible(QRect)"
    /\ ret.rect = <<5, 5, 10, 0>> /\ ret.flag
    /\ m_window["a"] = "w1" /\ "w1" \in DOMAIN g_data
    /\ g_data["w1"].hitTestVisibleRects = << <<100, 0, 50, 30>> >>
    /\ fx = << >>

\* Helpers in existence below w, in the order findChild meets them.
BoundTo(w) == SelectSeq(HelperSeq, LAMBDA x : alive[x] /\ ParentWindow(x) = w)

AddWindowCount(s) == Cardinality({i \in 1..Len(s) : s[i][1] = "addWindow"})

\* C21: get(object) for a widget returns the helper that exists below the
\* widget's top-level window and then changes nothing; when there is none
\* it creates one below that window and attaches it, registering the window
\* once.  Hence helpers that all come from get are at most one per window.
C21_GetBindsOnce ==
    [][(ret'.fn = "get" /\ ret'.widget \in QWidgets) =>
          LET w == TopLevelOf(ret'.widget) IN
          IF BoundTo(w) /= << >>
          THEN /\ ret'.instance = Head(BoundTo(w))
               /\ fx' = << >>
               /\ UNCHANGED <<alive, m_window, registry, g_data, timers>>
          ELSE /\ ~alive[ret'.instance]
               /\ alive' = [alive EXCEPT ![ret'.instance] = TRUE]
               /\ ParentWindow(ret'.instance) = w
               /\ m_window'[ret'.instance] = w
               /\ w \in registry'
               /\ w \in DOMAIN g_data' /\ g_data'[w].ready
               /\ AddWindowCount(fx') = 1
      ]_vars

\* Reached by get(w1), get(wd2): the second call found the helper the first
\* one created and attached.
C21_Witness ==
    /\ op = <<"get", "", "">> /\ ret.widget = "wd2" /\ ret.instance = "a"
    /\ fx = << >>
    /\ alive["a"] /\ ~alive["b"]
    /\ m_window["a"] = "w1" /\ registry = {"w1"}

\* C22: with two instances bound to window w1, after either instance's
\* extendsContentIntoTitleBar(v) the instance reports v; after v = true the
\* window is attached again - registered, with a ready record - also when
\* the other instance had detached it or was destroyed in between.
C22_SharedWindowFlag ==
    \A h \in {"a", "b"} :
        /\ op = ExtCall(h, TRUE) =>
              /\ ContentExtended(h)
              /\ "w1" \in registry
              /\ "w1" \in DOMAIN g_data /\ g_data["w1"].ready
        /\ op = ExtCall(h, FALSE) => ~ContentExtended(h)

\* C23: in every reachable state a window is in the FramelessManager
\* registry exactly when the table holds a record for it whose ready is
\* true.
C23_RegistryMatchesReady ==
    \A w \in Windows :
        w \in registry <=> (w \in DOMAIN g_data /\ g_data[w].ready)

\* Reached by a attach, b attach, a destroyed, b query: the window is
\* unregistered and the record the query inserted is not ready, while b
\* still refers to the window.
C23_Witness ==
    /\ ~alive["a"] /\ alive["b"] /\ m_window["b"] = "w1"
    /\ "w1" \in DOMAIN g_data /\ ~g_data["w1"].ready
    /\ "w1" \notin registry

\* C24: isReady() is true only while the instance is attached and the
\* callback of its current attach has run: it is false when the instance
\* has no window, false right after a detach, and false right after an
\* attach that scheduled a callback.
C24_ReadyOnlyWhileSettled ==
    \A h \in Helpers :
        /\ m_qpaReady[h] => m_window[h] /= NoWindow
        /\ op = ExtCall(h, FALSE) => ~m_qpaReady[h]
        /\ (op = ExtCall(h, TRUE) /\ <<"singleShot", h, "">> \in Range(fx))
              => ~m_qpaReady[h]

\* C25: only the callback of an instance's latest attach acts.  While a
\* later callback of the same instance is pending, the one that fires
\* belongs to an attach that a detach has undone: it centers nothing, blurs
\* nothing and delivers neither windowChanged nor ready.
C25_SupersededCallbackSilent ==
    [][\A h \in Helpers :
         (op'[1] = "readyCallback" /\ op'[2] = h /\ timers[h] > 1)
            => Kinds(fx') \cap {"center", "blur", "emit"} = {}
      ]_vars

\* C26: an instance that has just been sent the ready notification reports
\* isReady() = true, whichever instance scheduled the callback that sent it.
C26_ReadyDeliveredMeansReady ==
    \A x \in Helpers :
        <<"emit", "ready", x>> \in Range(fx) => m_qpaReady[x]

\* C27: a delayed repaint fires once, and when the helper has detached in
\* the meantime its callback does nothing: no widget is repainted and the
\* cleared window reference is not used.
C27_DelayedRepaintAfterDetach ==
    [][\A h \in Helpers :
         (op'[1] = "repaintCallback" /\ op'[2] = h) =>
            /\ repaints'[h] = repaints[h] - 1
            /\ m_window[h] = NoWindow => fx' = << >>
      ]_vars

\* C28: in every state in which the helper holds a window, no point is both
\* inside a system button and inside the draggable area of the title bar.
C28_HitTestsExclusive ==
    \A p \in ExclusivePoints :
        m_window["a"] /= NoWindow =>
            ~(/\ IsInSystemButtons(State, "a", p, "Unknown").ret.val
              /\ IsInTitleBarDraggableArea(State, "a", p).ret.val)

\* C29: the configuration of a window lives only while the window is
\* attached.  A record that is not ready holds no title bar, no button and
\* no exclusion (nothing was stored while unattached), and an attach that
\* registers the window leaves a record that holds none either.
C29_ConfigurationOnlyWhileAttached ==
    /\ [](\A w \in DOMAIN g_data :
             ~g_data[w].ready => g_data[w] = FramelessWidgetsHelperData)
    /\ [][\A w \in Windows :
             <<"addWindow", w, "">> \in Range(fx') =>
                g_data'[w] = [FramelessWidgetsHelperData EXCEPT !.ready = TRUE,
                                                                !.params = TRUE]
         ]_vars

=============================================================================
